---- MODULE Spec2Model ----
(***************************************************************************)
(* Verification model of odoo-manager (github.com/jota2rz/odoo-manager).   *)
(*                                                                         *)
(* The module holds one state machine per subsystem, all over the same     *)
(* variables.  Each specification drives one subsystem and leaves the      *)
(* variables of the others at their initial values:                        *)
(*                                                                         *)
(*   SpecHub     internal/events  Hub.Subscribe / Unsubscribe / Publish    *)
(*               and the receive loop of Handler.handleSSE                 *)
(*   SpecBackup  Handler.handleBackupProject (single-flight backups);      *)
(*               FairBackup adds the scheduling of the request goroutines  *)
(*   SpecStore   concurrent POST /api/projects, PUT and GET of a project,  *)
(*               createProjectContainers, on the projects table            *)
(*   SpecBoot    the same API across crashes and restarts of the process   *)
(*   SpecTasks   start, stop and delete: handlers and forked goroutines    *)
(*               FairTasks adds the scheduling of those goroutines         *)
(*   SpecDocker  internal/docker  Manager: the containers of a project,    *)
(*               ReconcileStatus and the orphaned-container clean-up       *)
(*   SpecDelete  repository set-up, start and delete of a project, with    *)
(*               its containers, config directory and clones               *)
(*   SpecMaint   update Odoo, update repos and restart                     *)
(*   SpecBackupFile  SpecBackup with every outcome of the copy of the      *)
(*               backup file out of the container                          *)
(*   SpecConf    Manager.updateOdooConfigAddonPath on an odoo.conf         *)
(*   SpecSettings  GET and PUT /api/settings (the GitHub token)            *)
(*   SpecHealth  Handler.StartDockerHealthCheck and the first frames of    *)
(*               /api/events                                               *)
(*   SpecNoRow   the handlers under /api/projects/{id}, asked for an id    *)
(*               without a row                                             *)
(*   SpecGit     git_repo_url and git_repo_branch through POST, PUT and    *)
(*               PUT .../repo                                              *)
(*   SpecAudit   Logger.Tail / TailBefore behind GET /api/audit/logs       *)
(*   SpecMig     store.runMigrations on a database file                    *)
(*   SpecPanic   a panic inside a background goroutine                     *)
(*   SpecDelSteps  deleteProject, statement by statement                   *)
(*   SpecClose   sends and closes on the channels of the event hub and of  *)
(*               the audit logger                                          *)
(*   SpecRepo    PUT /api/projects/{id}/repo: the recreated container and  *)
(*               addons_path of odoo.conf                                  *)
(*   SpecGitops  gitops.CloneOrPull and its variants on a clone directory  *)
(*   SpecStale   status writes of start and stop next to PUT of a project  *)
(*   SpecSetRace concurrent PUT /api/settings                              *)
(*   SpecSweep   the clean-containers sweep next to a project creation     *)
(***************************************************************************)
EXTENDS Integers, Sequences, FiniteSets, TLC

VARIABLES
    \* ---- events.Hub (src/internal/audit/audit.go:258-314) ----
    hubClients,   \* Hub.clients: the set of subscribed channels
    chanBuf,      \* the buffer of each channel made by Subscribe
    chanState,    \* "unmade" | "open" | "closed"
    pubPc,        \* each publishing goroutine: "idle" | "locked" (holds mu.RLock)
    pubEvt,       \* the event a publisher is broadcasting (its publish number)
    pubTodo,      \* channels the publisher's range loop has not visited yet
    hubSeq,       \* number of Publish calls entered so far (the publish order)
    sseLast,      \* publish number of the last event each SSE loop received
    \* ---- the world the handlers act on ----
    store,        \* ProjectStore: the projects table, one row or NoRow per id
    odooState,    \* Docker: the container odoo-<id>: "absent" | "stopped" | "running"
    dockerMgr,    \* Handler.dockerManager # nil
    pubLog,       \* the events handed to Hub.Publish, in call order
    \* ---- Handler.handleBackupProject (src/internal/handlers/handlers.go:896-1031) ----
    backupsRunning, \* Handler.backupsRunning: ids with a backup in progress
    bkPc,         \* position of each backup request
    bkProj,       \* the {id} of each backup request
    bkResp,       \* its HTTP status and error text (code 0: none yet)
    bkFrame,      \* the final SSE frame it emitted: "none" | "error" | "complete"
    bkExecs,      \* the requests that started an exec in the odoo container
    \* ---- the process and the project API (src/cmd/odoo-manager/main.go,
    \*      Handler.handleAPIProjects, Handler.handleAPIProject) ----
    phase,        \* main: "boot" | "reconciled" | "serving"
    staleFixed,   \* the count ReconcileStaleStatuses returned at this boot
    postPc,       \* position of each POST /api/projects request
    postBody,     \* its decoded body: name and port
    postResp,     \* its HTTP status (0: none yet)
    ctSnap,       \* createProjectContainers: the row its Get returned
    respBody,     \* the status in the project JSON the last step answered with
    \* ---- start, stop and delete (Handler.handleStartProject, handleStopProject,
    \*      handleAPIProject DELETE and the goroutines they fork) ----
    taskPc,       \* position of each action request and of the goroutine it forks
    taskProj,     \* the {id} of the request
    taskSnap,     \* the row the goroutine works on
    taskResp,     \* the HTTP status of the request (0: none yet)
    \* ---- the Docker daemon and the host directories (docker.Manager) ----
    containers,   \* the daemon's containers, by name
    dockerSeq,    \* how many containers the daemon has created so far
    confDir,      \* the project ids whose odoo.conf directory exists
    repoDirs,     \* the clone directories that exist on the host
    repoCfg,      \* the kinds of repo configured for project p1
    delSnap,      \* the row deleteProject was forked with
    dkOut         \* what the last Manager call returned

VARIABLES
    \* ---- odoo.conf of a project (Manager.updateOdooConfigAddonPath) ----
    odooConf,     \* the lines of data/config/<id>/odoo.conf
    confCall      \* the last call that edited it, its arguments and its error

VARIABLES
    \* ---- global settings (Handler.handleSettings) ----
    settingsPat,  \* the settings row github_pat ("" when none)
    setResp,      \* the github_pat of the last GET /api/settings answer
    setPuts,      \* PUT /api/settings requests served
    settingsValid, \* the settings row github_pat_valid: "", "true", "false"
    setReqs       \* per PUT request in progress: [pc, pat]

VARIABLES
    \* ---- the Docker health loop and the first frames of handleSSE ----
    dockerUp,     \* Handler.dockerUp: the cached reachability of the daemon
    hlPc,         \* the loop: "sleep" | "pinged" | "publish" | "publishing"
    hlIsUp,       \* isUp: the result of its last ping
    hlPings,      \* pings so far
    sseHello      \* per connection: "none" | "version" | the status frame

VARIABLES
    \* ---- the exec and the file of a backup (Manager.WaitExec,
    \*      Manager.CopyBackupFromContainer) ----
    bkExited,     \* the requests whose WaitExec returned exit code 0
    bkFile        \* the file at destPath: "none" | "partial" | "whole"

VARIABLES
    \* ---- a request on a project id (the handlers of /api/projects/{id}
    \*      and below) ----
    nfLast        \* the last such request: [ep, id, code]

VARIABLES
    \* ---- the repository columns of the table projects ----
    gitStore      \* id -> [url, branch], one row per project

VARIABLES
    \* ---- the audit log and a client that pages through it ----
    auditLog,     \* the lines of the file
    pgLimit,      \* the ?limit= of the client's requests
    pgPc,         \* "start" | "paging" | "done"
    pgPages,      \* the pages answered so far, in the order of the requests
    pgOffset,     \* the offset of the last answer
    probe         \* the last direct call of TailBefore: [k, lines, offset]

VARIABLES
    \* ---- the schema of the database file and runMigrations ----
    db,           \* [version, applied]
    migRun,       \* the call of runMigrations in progress, or the last one
    migPrev,      \* the call before it
    migRuns       \* calls so far

VARIABLES
    \* ---- background goroutines that may panic ----
    bg            \* per slot: [kind, id, snap, pc]

VARIABLES
    \* ---- DELETE requests and their goroutines ----
    del           \* per request: [pc, id, cfg, trace]

VARIABLES
    \* ---- audit.Logger's subscribers and the goroutines inside Log ----
    al            \* [clients, state, buf, pc, entry, todo]

VARIABLES
    \* ---- the clone directories as gitops sees them ----
    gt            \* [dir, failed, last]

VARIABLES
    \* ---- a POST /api/maintenance/clean-containers request ----
    sw            \* [pc, ids, all, todo, removed, err]

confVars  == <<odooConf, confCall>>
bkDiskVars == <<bkExited, bkFile>>
setVars   == <<settingsPat, setResp, setPuts, settingsValid, setReqs>>
healthVars == <<dockerUp, hlPc, hlIsUp, hlPings, sseHello>>
nfVars    == <<nfLast>>
gitVars   == <<gitStore>>
auditVars == <<auditLog, pgLimit, pgPc, pgPages, pgOffset, probe>>
migVars   == <<db, migRun, migPrev, migRuns>>
bgVars    == <<bg>>
delVars   == <<del>>
alVars    == <<al>>
gtVars    == <<gt>>
swVars    == <<sw>>
moreVars  == <<bgVars, delVars, alVars, gtVars, swVars>>
lateOld   == <<nfVars, gitVars, auditVars, migVars>>
lateVars  == <<lateOld, moreVars>>
extVars   == <<confVars, setVars, healthVars, bkDiskVars, lateVars>>

hubVars   == <<hubClients, chanBuf, chanState, pubPc, pubEvt, pubTodo, hubSeq, sseLast>>
worldVars == <<store, odooState, dockerMgr, pubLog>>
bkVars    == <<backupsRunning, bkPc, bkProj, bkResp, bkFrame, bkExecs>>
apiVars   == <<phase, staleFixed, postPc, postBody, postResp, ctSnap, respBody>>

taskVars  == <<taskPc, taskProj, taskSnap, taskResp>>
dockerVars == <<containers, dockerSeq, confDir, repoDirs, repoCfg, delSnap, dkOut>>

vars == <<hubVars, worldVars, bkVars, apiVars, taskVars, dockerVars, extVars>>

\* What the actions of one subsystem leave unchanged in the others.
hubOthers  == <<worldVars, bkVars, apiVars, taskVars, dockerVars, extVars>>
bkOthers   == <<hubVars, apiVars, taskVars, dockerVars, extVars>>
apiOthers  == <<hubVars, bkVars, taskVars, dockerVars, extVars>>
taskOthers == <<hubVars, bkVars, apiVars, dockerVars, extVars>>
dockerOthers == <<hubVars, bkVars, apiVars, taskVars, extVars>>
coreVars   == <<hubVars, worldVars, bkVars, apiVars, taskVars, dockerVars>>
restVars   == <<bkVars, apiVars, taskVars, dockerVars>>
confOthers == <<coreVars, setVars, healthVars, bkDiskVars, lateVars>>
setOthers  == <<coreVars, confVars, healthVars, bkDiskVars, lateVars>>
healthOthers == <<restVars, confVars, setVars, bkDiskVars, lateVars>>
bkNoDisk   == <<hubVars, apiVars, taskVars, dockerVars, confVars, setVars,
                healthVars, lateVars>>
earlyExt   == <<confVars, setVars, healthVars, bkDiskVars>>
nfOthers   == <<earlyExt, gitVars, auditVars, migVars, moreVars>>
gitOthers  == <<earlyExt, auditVars, migVars, moreVars>>
auditOthers == <<coreVars, earlyExt, nfVars, gitVars, migVars, moreVars>>
migOthers  == <<coreVars, earlyExt, nfVars, gitVars, auditVars, moreVars>>
bgOthers   == <<earlyExt, lateOld, delVars, alVars, gtVars, swVars>>
delOthers  == <<hubVars, bkVars, apiVars, taskVars, earlyExt, lateOld, bgVars, alVars, gtVars, swVars>>
alOthers   == <<coreVars, earlyExt, nfVars, gitVars, migVars, bgVars, delVars, gtVars, swVars>>
gtOthers   == <<coreVars, earlyExt, lateOld, bgVars, delVars, alVars, swVars>>
swOthers   == <<coreVars, earlyExt, lateOld, bgVars, delVars, alVars, gtVars>>

(***************************************************************************)
(* The projects table and the Docker daemon                                *)
(***************************************************************************)
\* Project ids, names and host ports.
ProjIds == {"p1", "p2", "p3"}
Names   == {"a", "b"}
Ports   == {8069, 8070}

\* store.Project.Status as its declaration lists it: the statuses at rest.
RestingStatuses == {"running", "stopped", "error"}

\* Manager.ReconcileStatus, the case list of its switch: the statuses of an
\* operation in progress.
TransientStatuses == {"creating", "deleting", "starting", "stopping",
                      "updating", "updating-repo"}

\* The nine status values.
Statuses == RestingStatuses \cup TransientStatuses

\* The states of a container as the daemon reports them.
ContainerStates == {"absent", "stopped", "running"}

\* A row of the projects table: the columns the handlers decide on.
Row(n, p, s) == [name |-> n, port |-> p, status |-> s]

\* ProjectStore.Get: (row, found).
StoreHas(st, id) == id \in DOMAIN st

\* A GetProjectStatus that does not look at the container.
GetProjectStatusAlwaysStopped(cstate, inspectFails) == "stopped"

\* Manager.GetProjectStatus: inspect odoo-<id>; a not-found container and a
\* container that is not running are "stopped", a failed inspect is "error".
GetProjectStatus(cstate, inspectFails) ==
    IF inspectFails THEN "error"
    ELSE IF cstate = "running" THEN "running" ELSE "stopped"

\* ReconcileStatus without the switch on the transient statuses.
ReconcileStatusNoTransient(status, cstate, inspectFails) ==
    GetProjectStatus(cstate, inspectFails)

\* Manager.ReconcileStatus: a transient stored status is returned as it is.
ReconcileStatus(status, cstate, inspectFails) ==
    IF status \in TransientStatuses
    THEN status
    ELSE GetProjectStatus(cstate, inspectFails)

\* The table st with row `row` stored under id.
Put(st, id, row) ==
    [q \in DOMAIN st \cup {id} |-> IF q = id THEN row ELSE st[q]]

\* A table without constraints on name and port.
UniqueOkNoConstraint(st, id, row) == TRUE

\* Migration 2, `name TEXT NOT NULL UNIQUE` and `port INTEGER NOT NULL
\* UNIQUE`: the statement that would leave `row` under id is accepted iff no
\* other row has its name or its port.
UniqueOk(st, id, row) ==
    \A q \in DOMAIN st \ {id} : st[q].name # row.name /\ st[q].port # row.port

\* A Create that reports success and stores nothing.
StoreCreateNoInsert(st, id, row) == [ok |-> TRUE, st |-> st]

\* ProjectStore.Create: INSERT; id is the primary key.
StoreCreate(st, id, row) ==
    IF id \notin DOMAIN st /\ UniqueOk(st, id, row)
    THEN [ok |-> TRUE,  st |-> Put(st, id, row)]
    ELSE [ok |-> FALSE, st |-> st]

\* ProjectStore.Update: UPDATE ... WHERE id = ?; no row affected is
\* sql.ErrNoRows.
StoreUpdate(st, id, row) ==
    IF id \in DOMAIN st /\ UniqueOk(st, id, row)
    THEN [ok |-> TRUE,  st |-> Put(st, id, row)]
    ELSE [ok |-> FALSE, st |-> st]

\* ProjectStore.Delete: DELETE ... WHERE id = ?.
StoreDelete(st, id) == [q \in DOMAIN st \ {id} |-> st[q]]

\* ProjectStore.NameExists / PortExists with excludeID "".
NameExists(st, name) == \E q \in DOMAIN st : st[q].name = name
PortExists(st, port) == \E q \in DOMAIN st : st[q].port = port

\* The world as the other specifications leave it.
WorldIdle ==
    /\ store     = [id \in {} |-> Row("a", 8069, "stopped")]
    /\ odooState = [id \in ProjIds |-> "absent"]
    /\ dockerMgr = TRUE
    /\ pubLog    = <<>>

\* An HTTP answer: status code and, for http.Error, its text.
Resp(code, msg) == [code |-> code, msg |-> msg]

\* events.Event as far as the claims read it: type, project id, data.
Evt(t, id, d) == [type |-> t, id |-> id, data |-> d]

(***************************************************************************)
(* events.Hub                                                              *)
(***************************************************************************)
\* make(chan Event, 16)
SubscriberQueueDepth == 16

\* Channels that SSE connections may create, and publishing goroutines.
Chans == {"ch1", "ch2"}
Pubs  == {"g1", "g2"}

\* Bound on the number of Publish calls of a behaviour.
MaxPublish == 17

\* Bound on the publish numbers up to which two Publish calls may overlap:
\* the overlap of Publish calls is explored among the first events, the
\* filling of a 16-deep buffer with Publish calls that follow one another.
MaxOverlapPublish == 3

HubIdle ==
    /\ hubClients = {}
    /\ chanBuf    = [c \in Chans |-> <<>>]
    /\ chanState  = [c \in Chans |-> "unmade"]
    /\ pubPc      = [g \in Pubs |-> "idle"]
    /\ pubEvt     = [g \in Pubs |-> 0]
    /\ pubTodo    = [g \in Pubs |-> {}]
    /\ hubSeq     = 0
    /\ sseLast    = [c \in Chans |-> 0]

\* sync.RWMutex: Lock() is granted only while no goroutine holds RLock().
HubNoReaders == \A g \in Pubs : pubPc[g] = "idle"

\* Hub.Subscribe: a fresh buffered channel is added under the write lock.
HubSubscribe(c) ==
    /\ chanState[c] = "unmade"
    /\ HubNoReaders
    /\ chanState'  = [chanState EXCEPT ![c] = "open"]
    /\ hubClients' = hubClients \cup {c}
    /\ UNCHANGED <<chanBuf, pubPc, pubEvt, pubTodo, hubSeq, sseLast, hubOthers>>

\* An Unsubscribe that closes the channel and leaves it in the map.
HubUnsubscribeNoDelete(c) ==
    /\ chanState[c] = "open"
    /\ HubNoReaders
    /\ chanState'  = [chanState EXCEPT ![c] = "closed"]
    /\ chanBuf'    = [chanBuf EXCEPT ![c] = <<>>]
    /\ sseLast'    = [sseLast EXCEPT ![c] = 0]
    /\ UNCHANGED <<hubClients, pubPc, pubEvt, pubTodo, hubSeq, hubOthers>>

\* Hub.Unsubscribe: delete from the map and close, under the write lock.
\* handleSSE calls it from a defer, so nothing reads the channel afterwards:
\* the events left in its buffer and the handler's locals are garbage.
HubUnsubscribe(c) ==
    /\ chanState[c] = "open"
    /\ HubNoReaders
    /\ hubClients' = hubClients \ {c}
    /\ chanState'  = [chanState EXCEPT ![c] = "closed"]
    /\ chanBuf'    = [chanBuf EXCEPT ![c] = <<>>]
    /\ sseLast'    = [sseLast EXCEPT ![c] = 0]
    /\ UNCHANGED <<pubPc, pubEvt, pubTodo, hubSeq, hubOthers>>

\* Hub.Publish, entry: h.mu.RLock(); the range loop will visit h.clients.
HubPublishBegin(g) ==
    /\ pubPc[g] = "idle"
    /\ hubSeq < MaxPublish
    /\ hubSeq < MaxOverlapPublish \/ HubNoReaders
    /\ hubSeq'  = hubSeq + 1
    /\ pubPc'   = [pubPc EXCEPT ![g] = "locked"]
    /\ pubEvt'  = [pubEvt EXCEPT ![g] = hubSeq + 1]
    /\ pubTodo' = [pubTodo EXCEPT ![g] = hubClients]
    /\ UNCHANGED <<hubClients, chanBuf, chanState, sseLast, hubOthers>>

\* A send that does not fall through to default when the buffer is full.
ChanTrySendNoDefault(buf, evt) == Append(buf, evt)

\* select { case ch <- evt: default: }  -- the send succeeds iff the buffer
\* has room; otherwise the default branch drops the event for this channel.
ChanTrySend(buf, evt) ==
    IF Len(buf) < SubscriberQueueDepth THEN Append(buf, evt) ELSE buf

\* Hub.Publish, one iteration of `for ch := range h.clients` (map order is
\* unspecified, so any unvisited channel may be next).
HubPublishSend(g, c) ==
    /\ pubPc[g] = "locked"
    /\ c \in pubTodo[g]
    /\ chanBuf' = [chanBuf EXCEPT ![c] = ChanTrySend(chanBuf[c], pubEvt[g])]
    /\ pubTodo' = [pubTodo EXCEPT ![g] = pubTodo[g] \ {c}]
    /\ UNCHANGED <<hubClients, chanState, pubPc, pubEvt, hubSeq, sseLast, hubOthers>>

\* Hub.Publish, return: the deferred h.mu.RUnlock().
HubPublishEnd(g) ==
    /\ pubPc[g] = "locked"
    /\ pubTodo[g] = {}
    /\ pubPc' = [pubPc EXCEPT ![g] = "idle"]
    /\ pubEvt' = [pubEvt EXCEPT ![g] = 0]
    /\ UNCHANGED <<hubClients, chanBuf, chanState, pubTodo, hubSeq, sseLast, hubOthers>>

\* Handler.handleSSE, `case evt, ok := <-ch` with ok true: the oldest buffered
\* event is taken and written to the client.
SSEReceive(c) ==
    /\ chanState[c] = "open"
    /\ chanBuf[c] # <<>>
    /\ sseLast' = [sseLast EXCEPT ![c] = Head(chanBuf[c])]
    /\ chanBuf' = [chanBuf EXCEPT ![c] = Tail(chanBuf[c])]
    /\ UNCHANGED <<hubClients, chanState, pubPc, pubEvt, pubTodo, hubSeq, hubOthers>>

(***************************************************************************)
(* Handler.handleBackupProject                                             *)
(***************************************************************************)
\* Concurrent GET /api/projects/{id}/backup requests (one goroutine each).
BkReqs == {"b1", "b2", "b3"}

BkIdle ==
    /\ backupsRunning = {}
    /\ bkPc    = [r \in BkReqs |-> "idle"]
    /\ bkProj  = [r \in BkReqs |-> "p1"]
    /\ bkResp  = [r \in BkReqs |-> Resp(0, "")]
    /\ bkFrame = [r \in BkReqs |-> "none"]
    /\ bkExecs = {}

BkDiskIdle ==
    /\ bkExited = {}
    /\ bkFile = [r \in BkReqs |-> "none"]

\* The request answers with an HTTP error before any stream is opened.
BkReject(r, code, msg) ==
    /\ bkResp' = [bkResp EXCEPT ![r] = Resp(code, msg)]
    /\ bkPc'   = [bkPc EXCEPT ![r] = "done"]

\* handleBackupProject lines 897-922: store.Get, the manager nil check and
\* ReconcileStatus; the project must be running.  What the daemon answers to
\* the inspect (the state of odoo-<id>, or a failure) is an input.
BkCheckProject(r, id, cstate, inspectFails) ==
    /\ bkPc[r] = "idle"
    /\ bkProj' = [bkProj EXCEPT ![r] = id]
    /\ IF ~StoreHas(store, id) THEN BkReject(r, 404, "Project not found")
       ELSE IF ~dockerMgr THEN BkReject(r, 503, "Docker manager not available")
       ELSE IF ReconcileStatus(store[id].status, cstate, inspectFails) # "running"
            THEN BkReject(r, 409, "Project must be running to create a backup")
            ELSE /\ bkPc' = [bkPc EXCEPT ![r] = "lock"]
                 /\ UNCHANGED bkResp
    /\ UNCHANGED <<backupsRunning, bkFrame, bkExecs, worldVars, bkOthers>>

\* The critical section of h.backupMu without the membership test.
BackupTryInsertNoCheck(running, id) ==
    [set |-> running \cup {id}, ok |-> TRUE]

\* The critical section of h.backupMu on a set `running`: the new set and
\* whether the caller may go on.
BackupTryInsert(running, id) ==
    IF id \in running
    THEN [set |-> running, ok |-> FALSE]
    ELSE [set |-> running \cup {id}, ok |-> TRUE]

\* lines 924-932: only one backup at a time per project.
BkSingleFlight(r) ==
    /\ bkPc[r] = "lock"
    /\ LET res == BackupTryInsert(backupsRunning, bkProj[r]) IN
       /\ backupsRunning' = res.set
       /\ IF res.ok
          THEN /\ bkPc' = [bkPc EXCEPT ![r] = "pending"]
               /\ UNCHANGED bkResp
          ELSE BkReject(r, 409, "A backup is already in progress for this project")
    /\ UNCHANGED <<bkProj, bkFrame, bkExecs, worldVars, bkOthers>>

\* lines 934-938: broadcast project_backup_pending.  The backup events carry
\* no data; the log notes the publishing request in its place.
BkPublishPending(r) ==
    /\ bkPc[r] = "pending"
    /\ pubLog' = Append(pubLog, Evt("project_backup_pending", bkProj[r], r))
    /\ bkPc'   = [bkPc EXCEPT ![r] = "sse"]
    /\ UNCHANGED <<backupsRunning, bkProj, bkResp, bkFrame, bkExecs,
                   store, odooState, dockerMgr, bkOthers>>

\* A return that skips the deferred cleanup.
BkReturnNoDefer(r, frame) ==
    /\ bkFrame' = [bkFrame EXCEPT ![r] = frame]
    /\ bkPc'    = [bkPc EXCEPT ![r] = IF frame = "complete" THEN "deferRemove" ELSE "done"]

\* The handler returns: what is left are its deferred calls.
BkReturn(r, frame) ==
    /\ bkFrame' = [bkFrame EXCEPT ![r] = frame]
    /\ bkPc'    = [bkPc EXCEPT ![r] = "deferRemove"]

\* lines 951-980: the ResponseWriter must be a Flusher, else 500.
BkSseSetup(r, canFlush) ==
    /\ bkPc[r] = "sse"
    /\ IF canFlush
       THEN /\ bkResp' = [bkResp EXCEPT ![r] = Resp(200, "")]
            /\ bkPc'   = [bkPc EXCEPT ![r] = "exec"]
            /\ UNCHANGED bkFrame
       ELSE /\ bkResp' = [bkResp EXCEPT ![r] = Resp(500, "Streaming unsupported")]
            /\ BkReturn(r, "none")
    /\ UNCHANGED <<backupsRunning, bkProj, bkExecs, worldVars, bkOthers>>

\* lines 982-987: Manager.BackupDatabase creates and attaches the exec.
BkStartExec(r, started) ==
    /\ bkPc[r] = "exec"
    /\ IF started
       THEN /\ bkExecs' = bkExecs \cup {r}
            /\ bkPc'    = [bkPc EXCEPT ![r] = "wait"]
            /\ UNCHANGED bkFrame
       ELSE /\ BkReturn(r, "error")
            /\ UNCHANGED bkExecs
    /\ UNCHANGED <<backupsRunning, bkProj, bkResp, worldVars, bkOthers>>

\* lines 989-1016: the exec output is streamed until the reader fails (EOF),
\* then Manager.WaitExec and the exit code.
BkWaitExec(r, waitErr, exitCode) ==
    /\ bkPc[r] = "wait"
    /\ bkExited' = IF ~waitErr /\ exitCode = 0
                   THEN bkExited \cup {r} ELSE bkExited
    /\ IF waitErr \/ exitCode # 0
       THEN BkReturn(r, "error")
       ELSE /\ bkPc' = [bkPc EXCEPT ![r] = "copy"]
            /\ UNCHANGED bkFrame
    /\ UNCHANGED <<backupsRunning, bkProj, bkResp, bkExecs, bkFile, worldVars,
                   bkNoDisk>>

\* The frame after the copy that answers any outcome with `complete`.
CopyFrameAlwaysComplete(outcome) == "complete"

\* lines 1024-1030: `error` when CopyBackupFromContainer returned an error,
\* else `complete` with the download URL.
CopyFrame(outcome) == IF outcome = "written" THEN "complete" ELSE "error"

\* Manager.CopyBackupFromContainer: what is at destPath when CopyFromContainer
\* or the tar header fails ("nocopy"), when MkdirAll or os.Create fails
\* ("nocreate"), when io.Copy fails after os.Create ("nowrite"), and when the
\* file was written ("written").
CopyBackupFromContainer(file, outcome) ==
    IF outcome \in {"nocopy", "nocreate"} THEN file
    ELSE IF outcome = "nowrite" THEN "partial"
    ELSE "whole"

\* lines 1018-1031: Manager.CopyBackupFromContainer, then `error` or
\* `complete`.
BkCopy(r, outcome) ==
    /\ bkPc[r] = "copy"
    /\ bkFile' = [bkFile EXCEPT ![r] = CopyBackupFromContainer(bkFile[r], outcome)]
    /\ BkReturn(r, CopyFrame(outcome))
    /\ UNCHANGED <<backupsRunning, bkProj, bkResp, bkExecs, bkExited, worldVars,
                   bkNoDisk>>

\* lines 941-944, the deferred function: delete(h.backupsRunning, id).
BkDeferRemove(r) ==
    /\ bkPc[r] = "deferRemove"
    /\ backupsRunning' = backupsRunning \ {bkProj[r]}
    /\ bkPc' = [bkPc EXCEPT ![r] = "deferPublish"]
    /\ UNCHANGED <<bkProj, bkResp, bkFrame, bkExecs, worldVars, bkOthers>>

\* lines 945-948, the deferred function: broadcast project_backup_done.
BkDeferPublish(r) ==
    /\ bkPc[r] = "deferPublish"
    /\ pubLog' = Append(pubLog, Evt("project_backup_done", bkProj[r], r))
    /\ bkPc'   = [bkPc EXCEPT ![r] = "done"]
    /\ UNCHANGED <<backupsRunning, bkProj, bkResp, bkFrame, bkExecs,
                   store, odooState, dockerMgr, bkOthers>>

\* Positions at which a request holds its project id in backupsRunning.
BkHolding == {"pending", "sse", "exec", "wait", "copy", "deferRemove"}

BkHolds(r) == bkPc[r] \in BkHolding

\* The steps of one request goroutine.
BkRequestStep(r) ==
    \/ \E id \in ProjIds, cstate \in ContainerStates, f \in BOOLEAN :
          BkCheckProject(r, id, cstate, f)
    \/ BkSingleFlight(r)
    \/ BkPublishPending(r)
    \/ \E canFlush \in BOOLEAN : BkSseSetup(r, canFlush)
    \/ \E started \in BOOLEAN : BkStartExec(r, started)
    \/ \E waitErr \in BOOLEAN, exitCode \in {0, 1} : BkWaitExec(r, waitErr, exitCode)
    \/ \E outcome \in {"nocopy", "written"} : BkCopy(r, outcome)
    \/ BkDeferRemove(r)
    \/ BkDeferPublish(r)

(***************************************************************************)
(* main and the project API: POST /api/projects, GET and PUT               *)
(* /api/projects/{id}, createProjectContainers                             *)
(***************************************************************************)
PostReqs == {"c1", "c2"}

\* project.ID = uuid.New().String(): an id no other request gets.
NewId == "c1" :> "p2" @@ "c2" :> "p3"

\* What a PUT body may carry in "status": JSON decoding accepts any string.
BodyStatuses == Statuses \cup {"bogus"}

NoBody == [name |-> "", port |-> 0]
NoRow  == Row("", 0, "")

ApiIdle ==
    /\ phase      = "serving"
    /\ staleFixed = 0
    /\ postPc     = [r \in PostReqs |-> "idle"]
    /\ postBody   = [r \in PostReqs |-> NoBody]
    /\ postResp   = [r \in PostReqs |-> 0]
    /\ ctSnap     = [r \in PostReqs |-> NoRow]
    /\ respBody   = "none"

\* ProjectStore.ReconcileStaleStatuses: every transient status becomes
\* "error"; the result is the new table and the number of rows rewritten.
ReconcileStaleStatuses(st) ==
    [st |-> [id \in DOMAIN st |->
                [st[id] EXCEPT !.status = IF @ \in TransientStatuses
                                          THEN "error" ELSE @]],
     n  |-> Cardinality({id \in DOMAIN st : st[id].status \in TransientStatuses})]

\* A boot that goes on without the call of ReconcileStaleStatuses.
MainReconcileSkipped ==
    /\ phase = "boot"
    /\ phase' = "reconciled"
    /\ respBody' = "none"
    /\ UNCHANGED <<worldVars, staleFixed, postPc, postBody, postResp, ctSnap,
                   apiOthers>>

\* main, lines 47-52: reset the projects stuck in a transient status.
MainReconcile ==
    /\ phase = "boot"
    /\ LET res == ReconcileStaleStatuses(store) IN
       /\ store'      = res.st
       /\ staleFixed' = res.n
    /\ phase' = "reconciled"
    /\ respBody' = "none"
    /\ UNCHANGED <<odooState, dockerMgr, pubLog, postPc, postBody, postResp,
                   ctSnap, apiOthers>>

\* main: the HTTP server starts to serve.
MainServe ==
    /\ phase = "reconciled"
    /\ phase' = "serving"
    /\ respBody' = "none"
    /\ UNCHANGED <<worldVars, staleFixed, postPc, postBody, postResp, ctSnap, apiOthers>>

\* The process dies and is started again: the requests and goroutines in
\* flight are gone, so is the hub; the database file stays.
Crash ==
    /\ phase = "serving"
    /\ phase'      = "boot"
    /\ staleFixed' = 0
    /\ postPc'     = [r \in PostReqs |-> IF postPc[r] = "idle" THEN "idle" ELSE "done"]
    /\ ctSnap'     = [r \in PostReqs |-> NoRow]
    /\ pubLog'     = <<>>
    /\ respBody'   = "none"
    /\ UNCHANGED <<store, odooState, dockerMgr, postBody, postResp, apiOthers>>

\* The POST request r answers with `code` and returns.
PostReply(r, code) ==
    /\ postResp' = [postResp EXCEPT ![r] = code]
    /\ postPc'   = [postPc EXCEPT ![r] = "done"]

\* POST /api/projects, lines 323-334: decode the body, NameExists.
PostBegin(r, name, port) ==
    /\ phase = "serving"
    /\ postPc[r] = "idle"
    /\ postBody' = [postBody EXCEPT ![r] = [name |-> name, port |-> port]]
    /\ IF NameExists(store, name)
       THEN PostReply(r, 409)
       ELSE /\ postPc' = [postPc EXCEPT ![r] = "portChk"]
            /\ UNCHANGED postResp
    /\ respBody' = "none"
    /\ UNCHANGED <<worldVars, phase, staleFixed, ctSnap, apiOthers>>

\* lines 335-351: PortExists, then the validation of the git repository URL.
PostPortChk(r, gitOk) ==
    /\ phase = "serving"
    /\ postPc[r] = "portChk"
    /\ IF PortExists(store, postBody[r].port)
       THEN PostReply(r, 409)
       ELSE IF ~gitOk
       THEN PostReply(r, 400)
       ELSE /\ postPc' = [postPc EXCEPT ![r] = "insert"]
            /\ UNCHANGED postResp
    /\ respBody' = "none"
    /\ UNCHANGED <<worldVars, phase, staleFixed, postBody, ctSnap,
                   apiOthers>>

\* lines 353-373: the new id, status "creating", ProjectStore.Create; on
\* success project_created is published, the answer is 201 with the project,
\* and createProjectContainers is forked.
PostInsert(r) ==
    /\ phase = "serving"
    /\ postPc[r] = "insert"
    /\ LET row == Row(postBody[r].name, postBody[r].port, "creating")
           res == StoreCreate(store, NewId[r], row) IN
       IF res.ok
       THEN /\ store'    = res.st
            /\ pubLog'   = Append(pubLog, Evt("project_created", NewId[r], "creating"))
            /\ postResp' = [postResp EXCEPT ![r] = 201]
            /\ respBody' = "creating"
            /\ postPc'   = [postPc EXCEPT ![r] = "ctGet"]
       ELSE /\ PostReply(r, 500)
            /\ UNCHANGED <<store, pubLog>>
            /\ respBody' = "none"
    /\ UNCHANGED <<odooState, dockerMgr, phase, staleFixed, postBody, ctSnap,
                   apiOthers>>

\* createProjectContainers, lines 556-577: ProjectStore.Get (return when the
\* row is gone), then project_action_pending "creating".
CtBegin(r) ==
    /\ phase = "serving"
    /\ postPc[r] = "ctGet"
    /\ IF StoreHas(store, NewId[r])
       THEN /\ ctSnap' = [ctSnap EXCEPT ![r] = store[NewId[r]]]
            /\ pubLog' = Append(pubLog, Evt("project_action_pending", NewId[r], "creating"))
            /\ postPc' = [postPc EXCEPT ![r] = "ctRun"]
       ELSE /\ postPc' = [postPc EXCEPT ![r] = "done"]
            /\ UNCHANGED <<ctSnap, pubLog>>
    /\ respBody' = "none"
    /\ UNCHANGED <<store, odooState, dockerMgr, phase, staleFixed, postBody,
                   postResp, apiOthers>>

\* createProjectContainers, lines 579-641: without a Docker manager, or when
\* Manager.CreateProject fails, the status is "error", else "stopped"; the
\* row read at the beginning is written back with it (the error of Update is
\* dropped or logged) and project_status_changed is published.
CtFinish(r, created) ==
    /\ phase = "serving"
    /\ postPc[r] = "ctRun"
    /\ LET status == IF dockerMgr /\ created THEN "stopped" ELSE "error"
           res    == StoreUpdate(store, NewId[r], [ctSnap[r] EXCEPT !.status = status]) IN
       /\ store'  = res.st
       /\ pubLog' = Append(pubLog, Evt("project_status_changed", NewId[r], status))
    /\ postPc' = [postPc EXCEPT ![r] = "done"]
    /\ ctSnap' = [ctSnap EXCEPT ![r] = NoRow]
    /\ respBody' = "none"
    /\ UNCHANGED <<odooState, dockerMgr, phase, staleFixed, postBody, postResp, apiOthers>>

\* PUT /api/projects/{id}, lines 412-426: the decoded body, with the id of
\* the path, goes to ProjectStore.Update; an error is a 500, else the body
\* is the answer.
PutProject(id, name, port, status) ==
    /\ phase = "serving"
    /\ LET res == StoreUpdate(store, id, Row(name, port, status)) IN
       /\ res.ok
       /\ store'    = res.st
       /\ respBody' = status
    /\ UNCHANGED <<odooState, dockerMgr, pubLog, phase, staleFixed, postPc,
                   postBody, postResp, ctSnap, apiOthers>>

\* GET /api/projects/{id}, lines 391-410 (the list handler, lines 304-321,
\* does the same for every row): the stored status is reconciled with the
\* daemon's answer, written back when it differs, and returned.
GetProject(id, cstate, inspectFails) ==
    /\ phase = "serving"
    /\ StoreHas(store, id)
    /\ LET reconciled == IF dockerMgr
                         THEN ReconcileStatus(store[id].status, cstate, inspectFails)
                         ELSE store[id].status IN
       /\ store' = IF reconciled # store[id].status
                   THEN StoreUpdate(store, id, [store[id] EXCEPT !.status = reconciled]).st
                   ELSE store
       /\ respBody' = reconciled
    /\ UNCHANGED <<odooState, dockerMgr, pubLog, phase, staleFixed, postPc,
                   postBody, postResp, ctSnap, apiOthers>>

(***************************************************************************)
(* Start, stop and delete: the handlers and the goroutines they fork       *)
(***************************************************************************)
Tasks == {"t1", "t2", "t3"}

TaskIdle ==
    /\ taskPc   = [t \in Tasks |-> "idle"]
    /\ taskProj = [t \in Tasks |-> "none"]
    /\ taskSnap = [t \in Tasks |-> NoRow]
    /\ taskResp = [t \in Tasks |-> 0]

\* The positions at which a forked goroutine has not returned yet.
TaskInFlight == {"startGet", "startRun", "stopGet", "stopRun", "delRun"}

\* The request t answers with `code` and forks nothing.
TaskReply(t, code) ==
    /\ taskResp' = [taskResp EXCEPT ![t] = code]
    /\ taskPc'   = [taskPc EXCEPT ![t] = "done"]

\* handleStartProject and handleStopProject, the beginning: Get (404), the
\* Docker manager (503); the handler goes on with the row it read.
HandleGet(t, id, to) ==
    /\ taskProj' = [taskProj EXCEPT ![t] = id]
    /\ IF ~StoreHas(store, id)
       THEN TaskReply(t, 404) /\ UNCHANGED taskSnap
       ELSE IF ~dockerMgr
       THEN TaskReply(t, 503) /\ UNCHANGED taskSnap
       ELSE /\ taskSnap' = [taskSnap EXCEPT ![t] = store[id]]
            /\ taskPc'   = [taskPc EXCEPT ![t] = to]
            /\ UNCHANGED taskResp
    /\ UNCHANGED <<worldVars, taskOthers>>

\* handleStartProject (target "running", pending "starting") and
\* handleStopProject (target "stopped", pending "stopping"), the rest:
\* ReconcileStatus on the row that was read and the write of that row with
\* its answer when it differs (the error of Update is only logged); in the
\* target state already, project_status_changed and 200; else
\* project_action_pending, 202 and the goroutine.
HandleAction(t, inspectFails, target, pending, forked) ==
    /\ LET id     == taskProj[t]
           actual == ReconcileStatus(taskSnap[t].status, odooState[id], inspectFails) IN
       /\ store' = IF actual # taskSnap[t].status
                   THEN StoreUpdate(store, id, [taskSnap[t] EXCEPT !.status = actual]).st
                   ELSE store
       /\ IF actual = target
          THEN /\ pubLog' = Append(pubLog, Evt("project_status_changed", id, actual))
               /\ TaskReply(t, 200)
          ELSE /\ pubLog'   = Append(pubLog, Evt("project_action_pending", id, pending))
               /\ taskResp' = [taskResp EXCEPT ![t] = 202]
               /\ taskPc'   = [taskPc EXCEPT ![t] = forked]
    /\ taskSnap' = [taskSnap EXCEPT ![t] = NoRow]
    /\ UNCHANGED <<odooState, dockerMgr, taskProj, taskOthers>>

\* POST /api/projects/{id}/start, lines 732-755.
HandleStart(t, id) ==
    /\ taskPc[t] = "idle"
    /\ HandleGet(t, id, "startChk")

\* POST /api/projects/{id}/start, lines 757-790.
HandleStartAct(t, inspectFails) ==
    /\ taskPc[t] = "startChk"
    /\ HandleAction(t, inspectFails, "running", "starting", "startGet")

\* POST /api/projects/{id}/stop, lines 793-816.
HandleStop(t, id) ==
    /\ taskPc[t] = "idle"
    /\ HandleGet(t, id, "stopChk")

\* POST /api/projects/{id}/stop, lines 818-851.
HandleStopAct(t, inspectFails) ==
    /\ taskPc[t] = "stopChk"
    /\ HandleAction(t, inspectFails, "stopped", "stopping", "stopGet")

\* startProjectContainers / stopProjectContainers, the beginning:
\* ProjectStore.Get, and return when the row is gone.
TaskGet(t, to) ==
    /\ IF StoreHas(store, taskProj[t])
       THEN /\ taskSnap' = [taskSnap EXCEPT ![t] = store[taskProj[t]]]
            /\ taskPc'   = [taskPc EXCEPT ![t] = to]
       ELSE /\ taskPc'   = [taskPc EXCEPT ![t] = "done"]
            /\ UNCHANGED taskSnap
    /\ UNCHANGED <<worldVars, taskProj, taskResp, taskOthers>>

\* startProjectContainers / stopProjectContainers, the rest: the Docker call;
\* the row read at the beginning is written back with status "error" when
\* it failed, else with `target` (the error of Update is dropped or logged),
\* and project_status_changed is published.
TaskRun(t, dockerOk, target, cstate) ==
    /\ LET id     == taskProj[t]
           status == IF dockerOk THEN target ELSE "error" IN
       /\ odooState' = IF dockerOk THEN [odooState EXCEPT ![id] = cstate] ELSE odooState
       /\ store'     = StoreUpdate(store, id, [taskSnap[t] EXCEPT !.status = status]).st
       /\ pubLog'    = Append(pubLog, Evt("project_status_changed", id, status))
    /\ taskPc'   = [taskPc EXCEPT ![t] = "done"]
    /\ taskSnap' = [taskSnap EXCEPT ![t] = NoRow]
    /\ UNCHANGED <<dockerMgr, taskProj, taskResp, taskOthers>>

\* startProjectContainers, lines 645-667.
StartGet(t) ==
    /\ taskPc[t] = "startGet"
    /\ TaskGet(t, "startRun")

\* startProjectContainers, lines 669-696.
StartRun(t, dockerOk) ==
    /\ taskPc[t] = "startRun"
    /\ TaskRun(t, dockerOk, "running", "running")

\* stopProjectContainers, lines 700-705.
StopGet(t) ==
    /\ taskPc[t] = "stopGet"
    /\ TaskGet(t, "stopRun")

\* stopProjectContainers, lines 707-728.
StopRun(t, dockerOk) ==
    /\ taskPc[t] = "stopRun"
    /\ TaskRun(t, dockerOk, "stopped", "stopped")

\* DELETE /api/projects/{id}, lines 428-446: Get, project_action_pending
\* "deleting", 202, and deleteProject is forked with the row.
HandleDelete(t, id) ==
    /\ taskPc[t] = "idle"
    /\ taskProj' = [taskProj EXCEPT ![t] = id]
    /\ IF ~StoreHas(store, id)
       THEN TaskReply(t, 404) /\ UNCHANGED <<pubLog, taskSnap>>
       ELSE /\ pubLog'   = Append(pubLog, Evt("project_action_pending", id, "deleting"))
            /\ taskResp' = [taskResp EXCEPT ![t] = 202]
            /\ taskSnap' = [taskSnap EXCEPT ![t] = store[id]]
            /\ taskPc'   = [taskPc EXCEPT ![t] = "delRun"]
    /\ UNCHANGED <<store, odooState, dockerMgr, taskOthers>>

\* deleteProject, lines 455-490: Manager.RemoveProject (with a Docker
\* manager), ProjectStore.Delete, project_deleted.
DeleteRun(t) ==
    /\ taskPc[t] = "delRun"
    /\ LET id == taskProj[t] IN
       /\ odooState' = IF dockerMgr THEN [odooState EXCEPT ![id] = "absent"] ELSE odooState
       /\ store'     = StoreDelete(store, id)
       /\ pubLog'    = Append(pubLog, Evt("project_deleted", id, ""))
    /\ taskPc'   = [taskPc EXCEPT ![t] = "done"]
    /\ taskSnap' = [taskSnap EXCEPT ![t] = NoRow]
    /\ UNCHANGED <<dockerMgr, taskProj, taskResp, taskOthers>>

(***************************************************************************)
(* docker.Manager: the containers of a project on the Docker daemon        *)
(***************************************************************************)
\* Container names: odoo-<id> and postgres-<id>, and one container that
\* odoo-manager did not create.
OdooName(id)     == <<"odoo", id>>
PostgresName(id) == <<"postgres", id>>
ForeignName      == <<"web", "other">>

\* The image of a project's odoo container.
OdooImage(ver) == [repo |-> "odoo", tag |-> ver]
PostgresImage  == [repo |-> "postgres", tag |-> "16"]
ForeignImage   == [repo |-> "nginx", tag |-> "latest"]

\* projectLabels without the managed label.
projectLabelsNoManaged(projectID, role) ==
    [projectId |-> projectID, role |-> role, managed |-> ""]

\* projectLabels: the three labels of a container odoo-manager creates.
projectLabels(projectID, role) ==
    [projectId |-> projectID, role |-> role, managed |-> "true"]

\* The labels of a container that has none of the three.
NoLabels == [projectId |-> "", role |-> "", managed |-> ""]

\* A mount of a container: a host directory (src) or a volume (vol, named
\* by a number; 0: none) at dest.
Bind(src, dest)   == [dest |-> dest, src |-> src, vol |-> 0]
Volume(vol, dest) == [dest |-> dest, src |-> "", vol |-> vol]

\* The three optional host directories a project's odoo container binds
\* (addonsHostDir, enterpriseHostDir, designThemesHostDir); "" skips the
\* bind.
HostDirChoices == {<<"", "", "">>,
                   <<"/repos/custom", "", "">>,
                   <<"/repos/custom", "/repos/enterprise", "/repos/design-themes">>}

\* The Binds of the odoo container: odoo.conf's directory at /etc/odoo and
\* each host directory that is not "".
OdooBinds(addonsHostDir, enterpriseHostDir, designThemesHostDir) ==
    {Bind("/data/config", "/etc/odoo")}
    \cup (IF addonsHostDir # ""
          THEN {Bind(addonsHostDir, "/mnt/extra-addons")} ELSE {})
    \cup (IF enterpriseHostDir # ""
          THEN {Bind(enterpriseHostDir, "/mnt/enterprise-addons")} ELSE {})
    \cup (IF designThemesHostDir # ""
          THEN {Bind(designThemesHostDir, "/mnt/design-themes")} ELSE {})

\* The daemon and the config directories as a Manager call sees and leaves
\* them, with the error it returns.
DResult(err, cs, seq, conf) == [err |-> err, cs |-> cs, seq |-> seq, conf |-> conf]

Exists(cs, name) == name \in DOMAIN cs

\* Manager.containerExists: the inspect returned no error.
containerExists(cs, name, fail) == fail # "inspect" /\ Exists(cs, name)

\* The state GetProjectStatus reads off the inspect of a container.
CState(cs, name) ==
    IF ~Exists(cs, name) THEN "absent"
    ELSE IF cs[name].running THEN "running" ELSE "stopped"

\* ContainerCreate: a new container, not started, with the next container
\* id.  The odoo image declares /var/lib/odoo a volume: a container created
\* without a mount there gets a fresh anonymous volume, named here by the
\* container's id.
DaemonCreate(cs, seq, name, labels, image, binds) ==
    LET cid == seq + 1
        anon == IF image.repo = "odoo"
                   /\ \A b \in binds : b.dest # "/var/lib/odoo"
                THEN {Volume(cid, "/var/lib/odoo")} ELSE {}
        c == [cid |-> cid, running |-> FALSE, labels |-> labels,
              image |-> image, mounts |-> binds \cup anon]
    IN [n \in DOMAIN cs \cup {name} |-> IF n = name THEN c ELSE cs[n]]

\* ContainerStart, ContainerStop and ContainerRemove{Force} of an existing
\* container.
DaemonSetRunning(cs, name, r) ==
    IF Exists(cs, name) THEN [cs EXCEPT ![name].running = r] ELSE cs

DaemonRemove(cs, name) == [n \in DOMAIN cs \ {name} |-> cs[n]]

\* The pull-and-create both CreateProject and StartProject make for a
\* container they found missing: an error when the pull fails, when the
\* create fails, and when the name is taken (the inspect had failed).
EnsureContainer(d, name, labels, image, binds, fail) ==
    IF containerExists(d.cs, name, fail)
    THEN DResult(FALSE, d.cs, d.seq, d.conf)
    ELSE IF fail \in {"pull", "create"} \/ Exists(d.cs, name)
    THEN DResult(TRUE, d.cs, d.seq, d.conf)
    ELSE DResult(FALSE,
                 DaemonCreate(d.cs, d.seq, name, labels, image, binds),
                 d.seq + 1, d.conf)

\* Manager.CreateProject: the postgres container, the config directory
\* with odoo.conf, the odoo container; neither is started.
CreateProject(d, id, ver, addonsHostDir, enterpriseHostDir, designThemesHostDir, fail) ==
    LET pg == EnsureContainer(d, PostgresName(id),
                              projectLabels(id, "postgres"), PostgresImage,
                              {}, fail)
        cf == DResult(FALSE, pg.cs, pg.seq, pg.conf \cup {id})
    IN  IF pg.err THEN pg
        ELSE IF fail = "fs" THEN DResult(TRUE, pg.cs, pg.seq, pg.conf)
        ELSE EnsureContainer(cf, OdooName(id), projectLabels(id, "odoo"),
                             OdooImage(ver),
                             OdooBinds(addonsHostDir, enterpriseHostDir,
                                       designThemesHostDir), fail)

\* Manager.StartProject: create what is missing, start postgres, then
\* odoo.
StartProject(d, id, ver, addonsHostDir, enterpriseHostDir, designThemesHostDir, fail) ==
    LET pg == EnsureContainer(d, PostgresName(id),
                              projectLabels(id, "postgres"), PostgresImage,
                              {}, fail)
        pgUp == DResult(FALSE, DaemonSetRunning(pg.cs, PostgresName(id), TRUE),
                        pg.seq, pg.conf)
        od == EnsureContainer(pgUp, OdooName(id), projectLabels(id, "odoo"),
                              OdooImage(ver),
                              OdooBinds(addonsHostDir, enterpriseHostDir,
                                        designThemesHostDir), fail)
    IN  IF pg.err THEN pg
        ELSE IF fail = "start" THEN DResult(TRUE, pg.cs, pg.seq, pg.conf)
        ELSE IF od.err THEN od
        ELSE DResult(FALSE, DaemonSetRunning(od.cs, OdooName(id), TRUE),
                     od.seq, od.conf)

\* Manager.StopProject: stop odoo, then postgres, whatever the first stop
\* returned; a missing container is no error.
StopProject(d, id, fail) ==
    IF fail = "stop"
    THEN DResult(Exists(d.cs, OdooName(id)) \/ Exists(d.cs, PostgresName(id)),
                 d.cs, d.seq, d.conf)
    ELSE DResult(FALSE,
                 DaemonSetRunning(DaemonSetRunning(d.cs, OdooName(id), FALSE),
                                  PostgresName(id), FALSE),
                 d.seq, d.conf)

\* Manager.RemoveProject: a best-effort stop, the forced removal of both
\* containers (a missing one is no error), the removal of the config
\* directory (its error is only logged); the first removal error is
\* returned.
RemoveProject(d, id, fail) ==
    LET st == StopProject(d, id, fail)
    IN  IF fail = "remove"
        THEN DResult(Exists(st.cs, OdooName(id)) \/ Exists(st.cs, PostgresName(id)),
                     st.cs, st.seq, st.conf \ {id})
        ELSE DResult(FALSE,
                     DaemonRemove(DaemonRemove(st.cs, OdooName(id)),
                                  PostgresName(id)),
                     st.seq,
                     IF fail = "fs" THEN st.conf ELSE st.conf \ {id})

\* The volume mounted at /var/lib/odoo in a container (0: none).
DataVolume(c) ==
    IF \E mp \in c.mounts : mp.dest = "/var/lib/odoo"
    THEN (CHOOSE mp \in c.mounts : mp.dest = "/var/lib/odoo").vol
    ELSE 0

\* Manager.RecreateOdooContainer: nothing when the inspect of odoo-<id>
\* returns an error; else stop it if it runs, remove it, create it with the
\* config directory and the host directories as its Binds, start it if it
\* ran.
RecreateOdooContainer(d, id, ver, addonsHostDir, enterpriseHostDir, designThemesHostDir, fail) ==
    LET odooName == OdooName(id)
        wasRunning == d.cs[odooName].running
        stopped == DaemonSetRunning(d.cs, odooName, FALSE)
        created == DaemonCreate(DaemonRemove(stopped, odooName), d.seq,
                                odooName, projectLabels(id, "odoo"),
                                OdooImage(ver),
                                OdooBinds(addonsHostDir, enterpriseHostDir,
                                          designThemesHostDir))
    IN  IF ~containerExists(d.cs, odooName, fail)
        THEN DResult(FALSE, d.cs, d.seq, d.conf)
        ELSE IF wasRunning /\ fail = "stop"
        THEN DResult(TRUE, d.cs, d.seq, d.conf)
        ELSE IF fail = "remove"
        THEN DResult(TRUE, stopped, d.seq, d.conf)
        ELSE IF fail = "create"
        THEN DResult(TRUE, DaemonRemove(stopped, odooName), d.seq, d.conf)
        ELSE IF wasRunning /\ fail = "start"
        THEN DResult(TRUE, created, d.seq + 1, d.conf)
        ELSE DResult(FALSE, DaemonSetRunning(created, odooName, wasRunning),
                     d.seq + 1, d.conf)

\* Manager.UpdateOdooContainer: the running state and the volume at
\* /var/lib/odoo are read off the inspect when it returns no error; pull;
\* stop odoo-<id> if it ran; remove it; create it with the Binds and, when
\* a volume was found, that volume at /var/lib/odoo; when it ran, start
\* postgres (its error is dropped) and odoo.
UpdateOdooContainer(d, id, ver, addonsHostDir, enterpriseHostDir, designThemesHostDir, fail) ==
    LET odooName == OdooName(id)
        inspected == containerExists(d.cs, odooName, fail)
        wasRunning == inspected /\ d.cs[odooName].running
        dataVolumeName == IF inspected THEN DataVolume(d.cs[odooName]) ELSE 0
        stopped == IF wasRunning
                   THEN DaemonSetRunning(d.cs, odooName, FALSE) ELSE d.cs
        binds == OdooBinds(addonsHostDir, enterpriseHostDir, designThemesHostDir)
                 \cup (IF dataVolumeName # 0
                       THEN {Volume(dataVolumeName, "/var/lib/odoo")} ELSE {})
        created == DaemonCreate(DaemonRemove(stopped, odooName), d.seq,
                                odooName, projectLabels(id, "odoo"),
                                OdooImage(ver), binds)
        started == DaemonSetRunning(
                       DaemonSetRunning(created, PostgresName(id), TRUE),
                       odooName, TRUE)
    IN  IF fail = "pull"
        THEN DResult(TRUE, d.cs, d.seq, d.conf)
        ELSE IF wasRunning /\ fail = "stop"
        THEN DResult(TRUE, d.cs, d.seq, d.conf)
        ELSE IF fail = "remove" /\ Exists(d.cs, odooName)
        THEN DResult(TRUE, stopped, d.seq, d.conf)
        ELSE IF fail = "create"
        THEN DResult(TRUE, DaemonRemove(stopped, odooName), d.seq, d.conf)
        ELSE IF wasRunning /\ fail = "start"
        THEN DResult(TRUE, created, d.seq + 1, d.conf)
        ELSE DResult(FALSE, IF wasRunning THEN started ELSE created,
                     d.seq + 1, d.conf)

\* isOwnedContainer: the container carries managed=true and its project-id
\* is one of the ids in the store.
isOwnedContainer(c, knownProjectIDs) ==
    IF c.labels.managed # "true" THEN FALSE
    ELSE c.labels.projectId \in knownProjectIDs

\* The containers ContainerList{All: true} returns and isOwnedContainer
\* rejects: what ListOrphanedContainers names and CleanOrphanedContainers
\* removes.
NotOwned(cs, knownProjectIDs) ==
    {n \in DOMAIN cs : ~isOwnedContainer(cs[n], knownProjectIDs)}

\* Manager.ListOrphanedContainers: (names, err).
ListOrphanedContainers(cs, knownProjectIDs, fail) ==
    IF fail = "list" THEN [err |-> TRUE, names |-> {}]
    ELSE [err |-> FALSE, names |-> NotOwned(cs, knownProjectIDs)]

\* Manager.CleanOrphanedContainers: (Removed, err) and the containers left;
\* a removal that fails goes to Errors and the loop goes on.
CleanOrphanedContainers(cs, knownProjectIDs, fail) ==
    IF fail = "list" THEN [err |-> TRUE, names |-> {}, cs |-> cs]
    ELSE IF fail = "remove" THEN [err |-> FALSE, names |-> {}, cs |-> cs]
    ELSE [err |-> FALSE, names |-> NotOwned(cs, knownProjectIDs),
          cs |-> [n \in DOMAIN cs \ NotOwned(cs, knownProjectIDs) |-> cs[n]]]

\* Handler.knownProjectIDs: the ids of store.List().
knownProjectIDs == DOMAIN store

\* ReconcileStatus calls GetProjectStatus, which inspects the container, only
\* past the switch on the transient statuses.
ReconcileInspects(status) == status \notin TransientStatuses

(***************************************************************************)
(* The calls of the handlers into docker.Manager and gitops, on project p1 *)
(***************************************************************************)
DkProjs == {"p1"}

\* The daemon creates at most this many containers in a run.
MaxCreated == 5

\* The Odoo version of a project: fixed when the project is created.
OdooVersionOf(id) == IF id = "p1" THEN "17.0" ELSE "18.0"

\* The clone directories of a project: data/repos/<id>/custom, enterprise
\* and design-themes.
RepoKinds == {"custom", "enterprise", "design-themes"}

\* The repo settings a request body of handleProjectRepo asks for.
RepoChoices == {{}, {"custom"}, RepoKinds}

\* What a call left in dkOut: the call, its error, the names it returned,
\* the status it was given and the one it returned, whether it inspected
\* the container.
DkNone == [op |-> "none", err |-> FALSE, names |-> {}, arg |-> "",
           status |-> "", inspected |-> FALSE]

DkCall(op, err) == [DkNone EXCEPT !.op = op, !.err = err]

\* No project has containers: the daemon holds a container odoo-manager did
\* not create and the odoo container of a project that is gone.
DockerBase ==
    (ForeignName :> [cid |-> 1, running |-> TRUE, labels |-> NoLabels,
                     image |-> ForeignImage, mounts |-> {}])
    @@ (OdooName("p2") :> [cid |-> 2, running |-> FALSE,
                           labels |-> projectLabels("p2", "odoo"),
                           image |-> OdooImage(OdooVersionOf("p2")),
                           mounts |-> OdooBinds("", "", "")
                                      \cup {Volume(2, "/var/lib/odoo")}])

\* deleteProject has not been forked.
NoDelete == [id |-> "none", cfg |-> {}]

DockerIdle ==
    /\ containers = DockerBase
    /\ dockerSeq = 2
    /\ confDir = {}
    /\ repoDirs = {}
    /\ repoCfg = {}
    /\ delSnap = NoDelete
    /\ dkOut = DkNone

\* The daemon as a Manager call finds it.
Daemon == [cs |-> containers, seq |-> dockerSeq, conf |-> confDir]

\* The daemon as the call left it.
DkApply(res) ==
    /\ res.seq <= MaxCreated
    /\ containers' = res.cs
    /\ dockerSeq' = res.seq
    /\ confDir' = res.conf

\* A goroutine calls Manager.CreateProject.
DkCreateProject(id, a, e, t, fail) ==
    /\ dockerMgr
    /\ LET res == CreateProject(Daemon, id, OdooVersionOf(id), a, e, t, fail)
       IN  /\ DkApply(res)
           /\ dkOut' = DkCall("create", res.err)
    /\ UNCHANGED <<repoDirs, repoCfg, delSnap, worldVars, dockerOthers>>

\* A goroutine calls Manager.StartProject.
DkStartProject(id, a, e, t, fail) ==
    /\ dockerMgr
    /\ LET res == StartProject(Daemon, id, OdooVersionOf(id), a, e, t, fail)
       IN  /\ DkApply(res)
           /\ dkOut' = DkCall("start", res.err)
    /\ UNCHANGED <<repoDirs, repoCfg, delSnap, worldVars, dockerOthers>>

\* A goroutine calls Manager.StopProject.
DkStopProject(id, fail) ==
    /\ dockerMgr
    /\ LET res == StopProject(Daemon, id, fail)
       IN  /\ DkApply(res)
           /\ dkOut' = DkCall("stop", res.err)
    /\ UNCHANGED <<repoDirs, repoCfg, delSnap, worldVars, dockerOthers>>

\* handleProjectRepo calls Manager.RecreateOdooContainer.
DkRecreate(id, a, e, t, fail) ==
    /\ dockerMgr
    /\ LET res == RecreateOdooContainer(Daemon, id, OdooVersionOf(id), a, e, t, fail)
       IN  /\ DkApply(res)
           /\ dkOut' = DkCall("recreate", res.err)
    /\ UNCHANGED <<repoDirs, repoCfg, delSnap, worldVars, dockerOthers>>

\* The goroutine of handleUpdateOdoo calls Manager.UpdateOdooContainer.
DkUpdate(id, a, e, t, fail) ==
    /\ dockerMgr
    /\ LET res == UpdateOdooContainer(Daemon, id, OdooVersionOf(id), a, e, t, fail)
       IN  /\ DkApply(res)
           /\ dkOut' = DkCall("update", res.err)
    /\ UNCHANGED <<repoDirs, repoCfg, delSnap, worldVars, dockerOthers>>

\* A handler calls Manager.ReconcileStatus on a project whose stored status
\* is `status`.
DkReconcile(id, status, fail) ==
    /\ dockerMgr
    /\ dkOut' = [DkNone EXCEPT
                    !.op = "reconcile",
                    !.arg = status,
                    !.status = ReconcileStatus(status,
                                               CState(containers, OdooName(id)),
                                               fail = "inspect"),
                    !.inspected = ReconcileInspects(status),
                    !.err = (ReconcileInspects(status) /\ fail = "inspect")]
    /\ UNCHANGED <<containers, dockerSeq, confDir, repoDirs, repoCfg, delSnap,
                   worldVars, dockerOthers>>

\* handlePreviewOrphaned("containers").
DkListOrphaned(fail) ==
    /\ dockerMgr
    /\ LET res == ListOrphanedContainers(containers, knownProjectIDs, fail)
       IN  dkOut' = [DkNone EXCEPT !.op = "list", !.err = res.err,
                                   !.names = res.names]
    /\ UNCHANGED <<containers, dockerSeq, confDir, repoDirs, repoCfg, delSnap,
                   worldVars, dockerOthers>>

\* handleCleanContainers.
DkCleanOrphaned(fail) ==
    /\ dockerMgr
    /\ LET res == CleanOrphanedContainers(containers, knownProjectIDs, fail)
       IN  /\ containers' = res.cs
           /\ dkOut' = [DkNone EXCEPT !.op = "clean", !.err = res.err,
                                      !.names = res.names]
    /\ UNCHANGED <<dockerSeq, confDir, repoDirs, repoCfg, delSnap,
                   worldVars, dockerOthers>>

\* gitops.CloneOrPull*, through addonsHostDir, enterpriseHostDir and
\* designThemesHostDir: the clone directories after the repos of the kinds
\* in `cfg` were cloned or pulled; a failed clone leaves no new directory.
Cloned(dirs, id, cfg, gitOk) ==
    IF gitOk THEN dirs \cup {<<id, k>> : k \in cfg} ELSE dirs

\* The host directory those helpers return: "" for a kind that is not
\* configured and for one whose clone or pull failed.
HostDir(cfg, kind, gitOk) ==
    IF kind \in cfg /\ gitOk
    THEN (CASE kind = "custom" -> "/repos/custom"
            [] kind = "enterprise" -> "/repos/enterprise"
            [] OTHER -> "/repos/design-themes")
    ELSE ""

\* DELETE /api/projects/{id}: Get, project_action_pending "deleting", 202,
\* and deleteProject is forked with the row the Get returned.
DkDeleteAccept(id) ==
    /\ StoreHas(store, id)
    /\ delSnap = NoDelete
    /\ delSnap' = [id |-> id, cfg |-> repoCfg]
    /\ pubLog' = Append(pubLog, Evt("project_action_pending", id, "deleting"))
    /\ dkOut' = DkCall("accept", FALSE)
    /\ UNCHANGED <<containers, dockerSeq, confDir, repoDirs, repoCfg,
                   store, odooState, dockerMgr, dockerOthers>>

\* deleteProject: Manager.RemoveProject with a Docker manager (its error is
\* only logged), the removal of the clone directories of the kinds
\* configured in the row it was forked with (errors only logged),
\* ProjectStore.Delete, project_deleted.
DkDeleteRun(fail) ==
    /\ delSnap # NoDelete
    /\ LET id == delSnap.id
           res == IF dockerMgr THEN RemoveProject(Daemon, id, fail)
                  ELSE DResult(FALSE, containers, dockerSeq, confDir)
       IN  /\ DkApply(res)
           /\ repoDirs' = IF fail = "fs" THEN repoDirs
                          ELSE repoDirs \ {<<id, k>> : k \in delSnap.cfg}
           /\ store' = StoreDelete(store, id)
           /\ pubLog' = Append(pubLog, Evt("project_deleted", id, ""))
           /\ dkOut' = DkCall("delete", res.err)
    /\ delSnap' = NoDelete
    /\ UNCHANGED <<repoCfg, odooState, dockerMgr, dockerOthers>>

(***************************************************************************)
(* Update Odoo, update repos and restart: the handlers and the goroutines  *)
(* they fork                                                               *)
(***************************************************************************)
\* What the actions below leave unchanged outside the tasks, the store, the
\* daemon and the clone directories.
maintOthers == <<hubVars, bkVars, apiVars, odooState, dockerMgr, repoCfg,
                 delSnap, dkOut, extVars>>

\* Manager.RestartOdooContainer: ContainerRestart of odoo-<id>; a container
\* that does not exist is an error.
RestartOdooContainer(d, id, fail) ==
    IF fail = "restart" \/ ~Exists(d.cs, OdooName(id))
    THEN DResult(TRUE, d.cs, d.seq, d.conf)
    ELSE DResult(FALSE, DaemonSetRunning(d.cs, OdooName(id), TRUE), d.seq, d.conf)

\* The end of the three goroutines: Manager.GetProjectStatus (its error is
\* dropped, its status kept), the row the handler read is written back with
\* that status (the error of Update is dropped), project_status_changed.
TaskPublishActual(t, inspectFails) ==
    LET id     == taskProj[t]
        status == GetProjectStatus(CState(containers, OdooName(id)), inspectFails)
    IN  /\ store'    = StoreUpdate(store, id, [taskSnap[t] EXCEPT !.status = status]).st
        /\ pubLog'   = Append(pubLog, Evt("project_status_changed", id, status))
        /\ taskPc'   = [taskPc EXCEPT ![t] = "done"]
        /\ taskSnap' = [taskSnap EXCEPT ![t] = NoRow]

\* The beginning of the three handlers: Get (404), for update-repos the
\* configured repo (400), the Docker manager (503); then the pending event
\* when the handler publishes one, 202, and the goroutine with the row.
HandleMaint(t, id, needsRepo, pending, forked) ==
    /\ taskPc[t] = "idle"
    /\ taskProj' = [taskProj EXCEPT ![t] = id]
    /\ IF ~StoreHas(store, id)
       THEN TaskReply(t, 404) /\ UNCHANGED <<pubLog, taskSnap>>
       ELSE IF needsRepo /\ "custom" \notin repoCfg
       THEN TaskReply(t, 400) /\ UNCHANGED <<pubLog, taskSnap>>
       ELSE IF ~dockerMgr
       THEN TaskReply(t, 503) /\ UNCHANGED <<pubLog, taskSnap>>
       ELSE /\ pubLog'   = IF pending = "" THEN pubLog
                           ELSE Append(pubLog, Evt("project_action_pending", id, pending))
            /\ taskResp' = [taskResp EXCEPT ![t] = 202]
            /\ taskSnap' = [taskSnap EXCEPT ![t] = store[id]]
            /\ taskPc'   = [taskPc EXCEPT ![t] = forked]
    /\ UNCHANGED <<store, containers, dockerSeq, confDir, repoDirs, maintOthers>>

\* PUT /api/projects/{id}/update-odoo.
HandleUpdateOdoo(t, id) ==
    /\ taskPc[t] = "idle"
    /\ HandleMaint(t, id, FALSE, "updating", "updRun")

\* The goroutine of handleUpdateOdoo: the three clones or pulls (a failed
\* one is logged and gives ""), Manager.UpdateOdooContainer; status "error"
\* when it failed, else the status GetProjectStatus returns.
UpdateOdooRun(t, gitOk, fail, inspectFails) ==
    /\ taskPc[t] = "updRun"
    /\ LET id  == taskProj[t]
           res == UpdateOdooContainer(Daemon, id, OdooVersionOf(id),
                                      HostDir(repoCfg, "custom", gitOk),
                                      HostDir(repoCfg, "enterprise", gitOk),
                                      HostDir(repoCfg, "design-themes", gitOk),
                                      fail)
           status == IF res.err THEN "error"
                     ELSE GetProjectStatus(CState(res.cs, OdooName(id)), inspectFails)
       IN  /\ DkApply(res)
           /\ repoDirs' = Cloned(repoDirs, id, repoCfg, gitOk)
           /\ store'    = StoreUpdate(store, id, [taskSnap[t] EXCEPT !.status = status]).st
           /\ pubLog'   = Append(pubLog, Evt("project_status_changed", id, status))
    /\ taskPc'   = [taskPc EXCEPT ![t] = "done"]
    /\ taskSnap' = [taskSnap EXCEPT ![t] = NoRow]
    /\ UNCHANGED <<taskProj, taskResp, maintOthers>>

\* POST /api/projects/{id}/update-repos.
HandleUpdateRepos(t, id) ==
    /\ taskPc[t] = "idle"
    /\ HandleMaint(t, id, TRUE, "updating-repo", "repoPull")

\* The goroutine of handleUpdateRepos, the pull of the custom repo:
\* addonsHostDir returns "" when it failed.
ReposPull(t, gitOk) ==
    /\ taskPc[t] = "repoPull"
    /\ repoDirs' = Cloned(repoDirs, taskProj[t], {"custom"}, gitOk)
    /\ taskPc' = [taskPc EXCEPT ![t] = IF gitOk THEN "repoPulled" ELSE "repoPullFailed"]
    /\ UNCHANGED <<store, pubLog, containers, dockerSeq, confDir, taskProj,
                   taskSnap, taskResp, maintOthers>>

\* ... the branch taken when the pull failed.
ReposPullFailed(t, inspectFails) ==
    /\ taskPc[t] = "repoPullFailed"
    /\ TaskPublishActual(t, inspectFails)
    /\ UNCHANGED <<containers, dockerSeq, confDir, repoDirs, taskProj, taskResp,
                   maintOthers>>

\* ... the pulls of the enterprise and design-themes repos (their results
\* are dropped) and, unless odoo.conf sets dev mode, the restart of the odoo
\* container (its error is only logged).
ReposRestart(t, gitOk, devMode, fail) ==
    /\ taskPc[t] = "repoPulled"
    /\ LET id  == taskProj[t]
           res == IF devMode THEN DResult(FALSE, containers, dockerSeq, confDir)
                  ELSE RestartOdooContainer(Daemon, id, fail)
       IN  /\ DkApply(res)
           /\ repoDirs' = Cloned(repoDirs, id, repoCfg \ {"custom"}, gitOk)
           /\ taskPc' = [taskPc EXCEPT ![t] =
                            IF res.err THEN "repoRestartFailed" ELSE "repoRestarted"]
    /\ UNCHANGED <<store, pubLog, taskProj, taskSnap, taskResp, maintOthers>>

\* ... the end: the status GetProjectStatus returns is stored and published.
ReposFinish(t, inspectFails) ==
    /\ taskPc[t] \in {"repoRestartFailed", "repoRestarted"}
    /\ TaskPublishActual(t, inspectFails)
    /\ UNCHANGED <<containers, dockerSeq, confDir, repoDirs, taskProj, taskResp,
                   maintOthers>>

\* POST /api/projects/{id}/restart-odoo: no pending event is published.
HandleRestartOdoo(t, id) ==
    /\ taskPc[t] = "idle"
    /\ HandleMaint(t, id, FALSE, "", "restartRun")

\* The goroutine of handleRestartOdoo: Manager.RestartOdooContainer (its
\* error is only logged).
RestartRun(t, fail) ==
    /\ taskPc[t] = "restartRun"
    /\ LET res == RestartOdooContainer(Daemon, taskProj[t], fail)
       IN  /\ DkApply(res)
           /\ taskPc' = [taskPc EXCEPT ![t] =
                            IF res.err THEN "restartFailed" ELSE "restarted"]
    /\ UNCHANGED <<store, pubLog, repoDirs, taskProj, taskSnap, taskResp,
                   maintOthers>>

\* ... the end: the status GetProjectStatus returns is stored and published.
RestartFinish(t, inspectFails) ==
    /\ taskPc[t] \in {"restartFailed", "restarted"}
    /\ TaskPublishActual(t, inspectFails)
    /\ UNCHANGED <<containers, dockerSeq, confDir, repoDirs, taskProj, taskResp,
                   maintOthers>>

(***************************************************************************)
(* odoo.conf: Manager.updateOdooConfigAddonPath                            *)
(***************************************************************************)
\* A line of odoo.conf after strings.TrimSpace: the text before the first
\* '=' as the pieces <<"addons_path">> or <<"addons_path", "_extra">>, so
\* that strings.HasPrefix is computed and not assumed; whether the line
\* holds a '='; and the text after it as strings.Split(parts[1], ",") cuts
\* it, each item trimmed ("" for an item of blanks).
ConfLine(key, eq, vals) == [key |-> key, eq |-> eq, vals |-> vals]

AddonsKey == <<"addons_path">>

\* strings.HasPrefix over the pieces of a key.
HasPrefix(key, prefix) ==
    Len(key) >= Len(prefix) /\ SubSeq(key, 1, Len(prefix)) = prefix

\* The three paths the exported wrappers pass: UpdateOdooConfigExtraAddons,
\* UpdateOdooConfigEnterprise and UpdateOdooConfigDesignThemes.
AddonPaths == {"/mnt/extra-addons", "/mnt/enterprise-addons",
               "/mnt/design-themes"}

\* The lines an odoo.conf is made of here: the section header, another
\* option, and addons_path lines that are empty, hold one path, hold blanks
\* between commas, hold a path twice, lack the '=', or belong to an option
\* whose name only starts with addons_path.
ConfLines ==
    { ConfLine(<<"[options]">>, FALSE, <<>>),
      ConfLine(<<"data_dir">>, TRUE, <<"/var/lib/odoo">>),
      ConfLine(AddonsKey, TRUE, <<"">>),
      ConfLine(AddonsKey, TRUE, <<"/mnt/enterprise-addons">>),
      ConfLine(AddonsKey, TRUE, <<"/mnt/extra-addons", "", "/mnt/enterprise-addons">>),
      ConfLine(AddonsKey, TRUE, <<"/mnt/enterprise-addons", "/mnt/enterprise-addons">>),
      ConfLine(AddonsKey, FALSE, <<>>),
      ConfLine(<<"addons_path", "_extra">>, TRUE, <<"/mnt/enterprise-addons">>) }

\* The lines of the odoo.conf files the calls start from.
MaxConfLines == 2

ConfFiles == UNION {[1..n -> ConfLines] : n \in 0..MaxConfLines}

\* The loop of updateOdooConfigAddonPath from line i on: a line without the
\* prefix is skipped; a line with it sets found; without '=' the loop goes
\* on; with it the line is rewritten from the items that are neither blank
\* nor the path, plus the path when enable, and the loop breaks.
RECURSIVE AddonLoop(_, _, _, _, _)
AddonLoop(lines, i, found, addonPath, enable) ==
    IF i > Len(lines) THEN [lines |-> lines, found |-> found]
    ELSE IF ~HasPrefix(lines[i].key, AddonsKey)
    THEN AddonLoop(lines, i + 1, found, addonPath, enable)
    ELSE IF ~lines[i].eq
    THEN AddonLoop(lines, i + 1, TRUE, addonPath, enable)
    ELSE LET cleaned == SelectSeq(lines[i].vals,
                                  LAMBDA p : p # "" /\ p # addonPath)
             joined  == IF enable THEN Append(cleaned, addonPath) ELSE cleaned
         IN  [lines |-> [lines EXCEPT ![i] = ConfLine(AddonsKey, TRUE, joined)],
              found |-> TRUE]

\* Manager.updateOdooConfigAddonPath on the lines of the file: the loop,
\* then an appended "addons_path = <path>" when no line had the prefix and
\* enable is set.
updateOdooConfigAddonPath(lines, addonPath, enable) ==
    LET r == AddonLoop(lines, 1, FALSE, addonPath, enable)
    IN  IF ~r.found /\ enable
        THEN Append(r.lines, ConfLine(AddonsKey, TRUE, <<addonPath>>))
        ELSE r.lines

ConfNone == [op |-> "none", path |-> "", enable |-> FALSE, err |-> FALSE]

ConfIdle ==
    /\ odooConf = <<>>
    /\ confCall = ConfNone

\* A call of one of the three wrappers: ReadOdooConfig or WriteOdooConfig
\* may fail, and then the file is as it was.
UpdateOdooConfig(addonPath, enable, ioOk) ==
    /\ odooConf' = IF ioOk
                   THEN updateOdooConfigAddonPath(odooConf, addonPath, enable)
                   ELSE odooConf
    /\ confCall' = [op |-> "addonPath", path |-> addonPath,
                    enable |-> enable, err |-> ~ioOk]
    /\ UNCHANGED confOthers

\* defaultOdooConf: the odoo.conf CreateProject writes; addons_path joins
\* the mount targets of the configured kinds and is left out when there
\* are none.
defaultOdooConf(hasRepo, enterprise, designThemes) ==
    LET paths == (IF hasRepo THEN <<"/mnt/extra-addons">> ELSE <<>>)
                 \o (IF enterprise THEN <<"/mnt/enterprise-addons">> ELSE <<>>)
                 \o (IF designThemes THEN <<"/mnt/design-themes">> ELSE <<>>)
    IN  IF paths = <<>>
        THEN <<ConfLine(<<"[options]">>, FALSE, <<>>),
               ConfLine(<<"data_dir">>, TRUE, <<"/var/lib/odoo">>)>>
        ELSE <<ConfLine(<<"[options]">>, FALSE, <<>>),
               ConfLine(AddonsKey, TRUE, paths),
               ConfLine(<<"data_dir">>, TRUE, <<"/var/lib/odoo">>)>>

\* The mount target of each kind of repository.
MountTarget(kind) ==
    CASE kind = "custom" -> "/mnt/extra-addons"
      [] kind = "enterprise" -> "/mnt/enterprise-addons"
      [] OTHER -> "/mnt/design-themes"

\* The end of handleProjectRepo: UpdateOdooConfigExtraAddons when a repo
\* URL was added or removed, UpdateOdooConfigEnterprise and
\* UpdateOdooConfigDesignThemes when the flag changed, each with the new
\* setting; a call that fails is logged and leaves the file as it was.
RepoConfUpdates(conf, prev, new, ioOk) ==
    LET upd(c, kind) ==
            IF ((kind \in prev) # (kind \in new)) /\ ioOk
            THEN updateOdooConfigAddonPath(c, MountTarget(kind), kind \in new)
            ELSE c
    IN  upd(upd(upd(conf, "custom"), "enterprise"), "design-themes")

\* handleProjectRepo: PUT /api/projects/{id}/repo with a body that leaves
\* the kinds in `new` configured (urlChanged: a repo URL other than the
\* stored one).  The settings are stored; with a Docker manager and a
\* change, the clones of the kinds that went away are removed, the
\* configured ones are cloned or pulled, the odoo container is recreated
\* with their directories (its error is only logged), and addons_path of
\* odoo.conf is updated for each setting that changed (ioOk: odoo.conf can
\* be read and written).
DkProjectRepo(id, new, urlChanged, gitOk, fail, ioOk) ==
    /\ StoreHas(store, id)
    /\ urlChanged => "custom" \in new
    /\ LET prev == repoCfg
           newUrl == "custom" \notin prev \/ urlChanged
           changed == prev # new \/ urlChanged
           cleared == IF "custom" \notin new /\ "custom" \in prev
                      THEN repoDirs \ {<<id, "custom">>} ELSE repoDirs
           gone == {<<id, k>> : k \in (prev \ new) \ {"custom"}}
                   \cup (IF "custom" \in new /\ newUrl
                         THEN {<<id, "custom">>} ELSE {})
           res == RecreateOdooContainer(Daemon, id, OdooVersionOf(id),
                                        HostDir(new, "custom", gitOk),
                                        HostDir(new, "enterprise", gitOk),
                                        HostDir(new, "design-themes", gitOk),
                                        fail)
           written == ioOk /\ id \in confDir
       IN  /\ repoCfg' = new
           /\ IF changed /\ dockerMgr
              THEN /\ repoDirs' = Cloned(cleared \ gone, id, new, gitOk)
                   /\ DkApply(res)
                   /\ dkOut' = DkCall("repo", res.err)
                   /\ odooConf' = RepoConfUpdates(odooConf, prev, new, written)
                   /\ confCall' = [op |-> "repo", path |-> "", enable |-> FALSE,
                                   err |-> prev # new /\ ~written]
              ELSE /\ repoDirs' = cleared
                   /\ dkOut' = DkCall("repo", FALSE)
                   /\ UNCHANGED <<containers, dockerSeq, confDir, confVars>>
    /\ UNCHANGED <<delSnap, worldVars, hubVars, bkVars, apiVars, taskVars,
                   setVars, healthVars, bkDiskVars, lateVars>>

(***************************************************************************)
(* /api/settings: the GitHub PAT and its mask                              *)
(***************************************************************************)
\* A token is the sequence of its characters.  PUT /api/settings stores
\* whatever string github_pat holds, so the characters of the mask itself
\* can be in a token.
PatChars == {"g", "*"}

MaxPatLen == 9

Pats == UNION {[1..n -> PatChars] : n \in 0..MaxPatLen}

\* The PUT requests served.
MaxPuts == 1

\* handleSettings, GET: the value of github_pat in the answer.
maskPAT(pat) ==
    IF pat = <<>> THEN <<>>
    ELSE IF Len(pat) > 8
    THEN SubSeq(pat, 1, 4) \o <<".", ".", ".">>
         \o SubSeq(pat, Len(pat) - 3, Len(pat))
    ELSE <<"*", "*", "*", "*">>

SetNone == [answered |-> FALSE, github_pat |-> <<>>, github_pat_valid |-> ""]

\* Concurrent PUT /api/settings requests (one goroutine each).
SetReqs == {"s1", "s2"}

SetReqNone == [pc |-> "idle", pat |-> <<>>]

SetIdle ==
    /\ settingsPat = <<>>
    /\ setResp = SetNone
    /\ setPuts = 0
    /\ settingsValid = ""
    /\ setReqs = [r \in SetReqs |-> SetReqNone]

\* gitops.ValidateToken: what GitHub answers for a token.  The tokens that
\* GitHub accepts are here those that start with "g".
ValidateToken(pat) == pat # <<>> /\ pat[1] = "g"

\* handleSettings, PUT: the value written to github_pat_valid for the
\* token of the body.
PatValid(pat) ==
    IF pat = <<>> THEN ""
    ELSE IF ValidateToken(pat) THEN "true" ELSE "false"

\* PUT /api/settings served without another request in between:
\* store.SetSetting("github_pat", body.GitHubPAT), ValidateToken, and
\* store.SetSetting("github_pat_valid", ...).
PutSettings(pat) ==
    /\ setPuts < MaxPuts
    /\ \A r \in SetReqs : setReqs[r].pc = "idle"
    /\ setPuts' = setPuts + 1
    /\ settingsPat' = pat
    /\ settingsValid' = PatValid(pat)
    /\ setResp' = SetNone
    /\ UNCHANGED <<setReqs, setOthers>>

\* GET /api/settings.
GetSettings ==
    /\ setResp' = [answered |-> TRUE, github_pat |-> maskPAT(settingsPat),
                   github_pat_valid |-> settingsValid]
    /\ UNCHANGED <<settingsPat, setPuts, settingsValid, setReqs, setOthers>>

\* PUT /api/settings, request r, up to the call of ValidateToken: the body
\* is decoded and store.SetSetting("github_pat", body.GitHubPAT) is done.
SetPutPat(r, pat) ==
    /\ setReqs[r].pc = "idle"
    /\ settingsPat' = pat
    /\ setReqs' = [setReqs EXCEPT ![r] = [pc |-> "validate", pat |-> pat]]
    /\ UNCHANGED <<setResp, setPuts, settingsValid, setOthers>>

\* PUT /api/settings, request r, the rest: ValidateToken on the token of
\* the body (skipped for an empty one), store.SetSetting of
\* github_pat_valid, and the answer.
SetPutValid(r) ==
    /\ setReqs[r].pc = "validate"
    /\ settingsValid' = PatValid(setReqs[r].pat)
    /\ setReqs' = [setReqs EXCEPT ![r] = SetReqNone]
    /\ UNCHANGED <<settingsPat, setResp, setPuts, setOthers>>

(***************************************************************************)
(* Handler.StartDockerHealthCheck and the first frames of handleSSE        *)
(***************************************************************************)
\* The goroutine of the health loop publishes as g1.
HealthPub == "g1"

\* Pings of a behaviour.
MaxPings == 4

\* The data of a docker_status event and of the docker_status frame.
AlwaysDown(up) == "down"

DockerStatus(up) == IF up THEN "up" ELSE "down"

\* `changed := h.dockerUp != isUp`
ChangedAlways(cached, isUp) == TRUE

Changed(cached, isUp) == cached # isUp

HealthIdle ==
    /\ dockerUp = FALSE
    /\ hlPc = "sleep"
    /\ hlIsUp = FALSE
    /\ hlPings = 0
    /\ sseHello = [c \in Chans |-> "none"]

\* One turn of the loop up to the ping: with no Manager, NewManager and a
\* ping of the new client, which becomes h.dockerManager when both succeed;
\* with a Manager, its Ping.
HealthPing(reachable) ==
    /\ hlPc = "sleep"
    /\ hlPings < MaxPings
    /\ hlPings' = hlPings + 1
    /\ hlIsUp' = reachable
    /\ dockerMgr' = (dockerMgr \/ reachable)
    /\ hlPc' = "pinged"
    /\ UNCHANGED <<dockerUp, sseHello, store, odooState, pubLog, hubVars,
                   healthOthers>>

\* Under dockerMu.Lock: changed is computed and the result is cached; the
\* loop goes on to Publish when changed and back to sleep when not.
HealthUpdate ==
    /\ hlPc = "pinged"
    /\ dockerUp' = hlIsUp
    /\ hlPc' = IF Changed(dockerUp, hlIsUp) THEN "publish" ELSE "sleep"
    /\ UNCHANGED <<hlIsUp, hlPings, sseHello, worldVars, hubVars, healthOthers>>

\* h.events.Publish(Event{Type: DockerStatus, Data: status}): the entry of
\* Hub.Publish, as HubPublishBegin, with the event in pubLog.
HealthPublish ==
    /\ hlPc = "publish"
    /\ pubPc[HealthPub] = "idle"
    /\ hubSeq < MaxPublish
    /\ hubSeq'  = hubSeq + 1
    /\ pubPc'   = [pubPc EXCEPT ![HealthPub] = "locked"]
    /\ pubEvt'  = [pubEvt EXCEPT ![HealthPub] = hubSeq + 1]
    /\ pubTodo' = [pubTodo EXCEPT ![HealthPub] = hubClients]
    /\ pubLog'  = Append(pubLog, Evt("docker_status", "", DockerStatus(hlIsUp)))
    /\ hlPc' = "publishing"
    /\ UNCHANGED <<dockerUp, hlIsUp, hlPings, sseHello, store, odooState,
                   dockerMgr, hubClients, chanBuf, chanState, sseLast,
                   healthOthers>>

\* Publish has returned: the loop starts its next turn.
HealthLoop ==
    /\ hlPc = "publishing"
    /\ pubPc[HealthPub] = "idle"
    /\ hlPc' = "sleep"
    /\ UNCHANGED <<dockerUp, hlIsUp, hlPings, sseHello, worldVars, hubVars,
                   healthOthers>>

\* handleSSE after Subscribe: the version frame.
SseVersion(c) ==
    /\ chanState[c] = "open"
    /\ sseHello[c] = "none"
    /\ sseHello' = [sseHello EXCEPT ![c] = "version"]
    /\ UNCHANGED <<dockerUp, hlPc, hlIsUp, hlPings, worldVars, hubVars,
                   healthOthers>>

\* handleSSE: the docker_status frame, from IsDockerUp().
SseDockerStatus(c) ==
    /\ chanState[c] = "open"
    /\ sseHello[c] = "version"
    /\ sseHello' = [sseHello EXCEPT ![c] = DockerStatus(dockerUp)]
    /\ UNCHANGED <<dockerUp, hlPc, hlIsUp, hlPings, worldVars, hubVars,
                   healthOthers>>

\* handleSSE: the select loop, entered after the two frames.
SseLoop(c) ==
    /\ sseHello[c] \in {"up", "down"}
    /\ SSEReceive(c)

(***************************************************************************)
(* The handlers under /api/projects/{id}: what each does first with the id *)
(***************************************************************************)
\* The endpoints whose handler begins with ProjectStore.Get and answers
\* "Project not found" when there is no row: GET and DELETE of
\* handleAPIProject, handleStartProject, handleStopProject,
\* handleListDatabases, handleBackupProject, handleProjectConfig,
\* handleProjectRepo, handleUpdateOdoo, handleUpdateRepos and
\* handleRestartOdoo.
GetFirstEndpoints ==
    {"get", "delete", "start", "stop", "databases", "backup", "config",
     "repo", "update-odoo", "update-repo", "restart-odoo"}

NfNone == [ep |-> "none", id |-> "none", code |-> 0]

NfIdle == nfLast = NfNone

NfReq(ep, id, code) == [ep |-> ep, id |-> id, code |-> code]

\* One of the handlers above, called with an id that has no row: the Get
\* fails and the handler returns 404 before it reads the body, asks for the
\* Docker manager or forks.  (With a row the handler goes on as in the
\* sections above.)
HandleNoRow(ep, id) ==
    /\ phase = "serving"
    /\ ~StoreHas(store, id)
    /\ nfLast' = NfReq(ep, id, 404)
    /\ UNCHANGED <<coreVars, nfOthers>>

\* handleAPIProject, PUT: no Get; a body that does not decode is a 400,
\* then ProjectStore.Update with the id of the path, whose error (a
\* constraint, or sql.ErrNoRows when no row has the id) is a 500.
HandlePut(id, bodyOk, name, port, status) ==
    /\ phase = "serving"
    /\ LET res == StoreUpdate(store, id, Row(name, port, status)) IN
       IF ~bodyOk
       THEN nfLast' = NfReq("put", id, 400) /\ UNCHANGED <<store, respBody>>
       ELSE IF ~res.ok
       THEN nfLast' = NfReq("put", id, 500) /\ UNCHANGED <<store, respBody>>
       ELSE /\ nfLast'   = NfReq("put", id, 200)
            /\ store'    = res.st
            /\ respBody' = status
    /\ UNCHANGED <<odooState, dockerMgr, pubLog, phase, staleFixed, postPc,
                   postBody, postResp, ctSnap, hubVars, bkVars, taskVars,
                   dockerVars, nfOthers>>

\* handleProjectLogs: no Get either; 503 without a Docker manager, else
\* the event-stream headers and Manager.GetLogs, whose error (the inspect
\* of a container that does not exist) is written as an "event: error"
\* frame of the 200 answer.
HandleLogs(id) ==
    /\ phase = "serving"
    /\ nfLast' = NfReq("logs", id, IF ~dockerMgr THEN 503 ELSE 200)
    /\ UNCHANGED <<coreVars, nfOthers>>

(***************************************************************************)
(* git_repo_url and git_repo_branch of a project                           *)
(***************************************************************************)
RepoUrls     == {"", "u"}
RepoBranches == {"", "b"}

GitCols(url, branch) == [url |-> url, branch |-> branch]

\* No project, no row.
GitIdle == gitStore = [id \in {} |-> GitCols("", "")]

\* ProjectStore.Create and ProjectStore.Update, the columns git_repo_url and
\* git_repo_branch of the row: the values of the Project passed in are
\* written as they are.
StoreGitCols(gs, id, url, branch) == Put(gs, id, GitCols(url, branch))

\* POST /api/projects, lines 323-373: NameExists and PortExists (409); a
\* non-empty URL is validated and probed (400), an empty one is not looked
\* at; the decoded project, branch included, gets a new id and the status
\* "creating" and is inserted (500); project_created is published.
GitPost(id, name, port, url, branch, urlOk) ==
    /\ phase = "serving"
    /\ ~StoreHas(store, id)
    /\ LET res == StoreCreate(store, id, Row(name, port, "creating")) IN
       IF NameExists(store, name) \/ PortExists(store, port)
       THEN nfLast' = NfReq("post", id, 409) /\ UNCHANGED <<store, gitStore, pubLog>>
       ELSE IF url # "" /\ ~urlOk
       THEN nfLast' = NfReq("post", id, 400) /\ UNCHANGED <<store, gitStore, pubLog>>
       ELSE IF ~res.ok
       THEN nfLast' = NfReq("post", id, 500) /\ UNCHANGED <<store, gitStore, pubLog>>
       ELSE /\ store'    = res.st
            /\ gitStore' = StoreGitCols(gitStore, id, url, branch)
            /\ pubLog'   = Append(pubLog, Evt("project_created", id, "creating"))
            /\ nfLast'   = NfReq("post", id, 201)
    /\ UNCHANGED <<odooState, dockerMgr, hubVars, bkVars, apiVars, taskVars,
                   dockerVars, gitOthers>>

\* createProjectContainers, lines 556-641: the row is read and written back
\* with the status "stopped" or "error", its other columns as they were
\* read; project_action_pending and project_status_changed are published.
GitCreated(id, created) ==
    /\ phase = "serving"
    /\ StoreHas(store, id)
    /\ store[id].status = "creating"
    /\ LET status == IF dockerMgr /\ created THEN "stopped" ELSE "error" IN
       /\ store'  = StoreUpdate(store, id, [store[id] EXCEPT !.status = status]).st
       /\ gitStore' = StoreGitCols(gitStore, id, gitStore[id].url, gitStore[id].branch)
       /\ pubLog' = pubLog \o <<Evt("project_action_pending", id, "creating"),
                                Evt("project_status_changed", id, status)>>
    /\ UNCHANGED <<odooState, dockerMgr, hubVars, bkVars, apiVars, taskVars,
                   dockerVars, gitOthers, nfLast>>

\* PUT /api/projects/{id}, lines 412-426, with the repository columns: the
\* decoded body goes to ProjectStore.Update as it is.
GitPut(id, name, port, status, url, branch) ==
    /\ phase = "serving"
    /\ LET res == StoreUpdate(store, id, Row(name, port, status)) IN
       IF ~res.ok
       THEN nfLast' = NfReq("put", id, 500) /\ UNCHANGED <<store, gitStore>>
       ELSE /\ nfLast'   = NfReq("put", id, 200)
            /\ store'    = res.st
            /\ gitStore' = StoreGitCols(gitStore, id, url, branch)
    /\ UNCHANGED <<odooState, dockerMgr, pubLog, hubVars, bkVars, apiVars,
                   taskVars, dockerVars, gitOthers>>

\* handleProjectRepo, lines 1561-1719, the writes to the store: Get (404);
\* an empty URL clears URL and branch (lines 1599-1610), any other is
\* validated and probed (422) and stored with the branch of the body
\* (lines 1667-1672); the Update that follows fails with a 500.  What the
\* handler does to the containers afterwards writes nothing to the store.
GitRepo(id, url, branch, urlOk, updateOk) ==
    /\ phase = "serving"
    /\ IF ~StoreHas(store, id)
       THEN nfLast' = NfReq("repo", id, 404) /\ UNCHANGED gitStore
       ELSE IF url # "" /\ ~urlOk
       THEN nfLast' = NfReq("repo", id, 422) /\ UNCHANGED gitStore
       ELSE IF ~updateOk
       THEN nfLast' = NfReq("repo", id, 500) /\ UNCHANGED gitStore
       ELSE /\ nfLast'   = NfReq("repo", id, 200)
            /\ gitStore' = IF url = ""
                           THEN StoreGitCols(gitStore, id, "", "")
                           ELSE StoreGitCols(gitStore, id, url, branch)
    /\ UNCHANGED <<coreVars, gitOthers>>

(***************************************************************************)
(* audit.Logger: Tail, TailBefore and GET /api/audit/logs                  *)
(***************************************************************************)
MaxLines == 4     \* the longest audit log
MaxLimit == 3     \* the largest ?limit= of a request

DefaultLimit == 100
LimitCeiling == 500

\* An audit log: line i of the file is the number i.
AuditLogs == {[i \in 1..len |-> i] : len \in 0..MaxLines}

PageNone == [k |-> 0, lines |-> <<>>, offset |-> 0]

AuditIdle ==
    /\ auditLog = <<>>
    /\ pgLimit  = 0
    /\ pgPc     = "start"
    /\ pgPages  = <<>>
    /\ pgOffset = 0
    /\ probe    = PageNone

\* tailLines: every line is appended to the ring, which drops its first
\* line when it holds more than n.
RECURSIVE tailLoop(_, _, _, _)
tailLoop(file, i, ring, n) ==
    IF i > Len(file)
    THEN ring
    ELSE LET appended == Append(ring, file[i]) IN
         tailLoop(file, i + 1,
                  IF Len(appended) > n THEN Tail(appended) ELSE appended, n)

tailLines(file, n) == tailLoop(file, 1, <<>>, n)

\* Logger.Tail: the last n lines, oldest first.
LoggerTail(file, n) == tailLines(file, n)

\* A TailBefore whose new offset is not clamped at the beginning of the file.
TailBeforeNoClamp(all, n, beforeLine) ==
    LET totalLines == Len(all)
        endIdx     == totalLines - beforeLine
        startIdx   == IF endIdx - n < 0 THEN 0 ELSE endIdx - n IN
    IF totalLines = 0 THEN [lines |-> <<>>, offset |-> 0]
    ELSE IF endIdx <= 0 THEN [lines |-> <<>>, offset |-> totalLines]
    ELSE [lines |-> SubSeq(all, startIdx + 1, endIdx), offset |-> beforeLine + n]

\* Logger.TailBefore: beforeLine counts from the end; the slice
\* all[startIdx:endIdx] and the new offset totalLines - startIdx.
TailBefore(all, n, beforeLine) ==
    LET totalLines == Len(all)
        endIdx     == totalLines - beforeLine
        startIdx   == IF endIdx - n < 0 THEN 0 ELSE endIdx - n IN
    IF totalLines = 0 THEN [lines |-> <<>>, offset |-> 0]
    ELSE IF endIdx <= 0 THEN [lines |-> <<>>, offset |-> totalLines]
    ELSE [lines |-> SubSeq(all, startIdx + 1, endIdx),
          offset |-> totalLines - startIdx]

\* handleAuditLogs, the limit: ?limit= when it is in 1..500, else 100.
AuditLimit(v) == IF v > 0 /\ v <= LimitCeiling THEN v ELSE DefaultLimit

\* handleAuditLogs: without ?before= the answer is Tail(limit) and the
\* number of its lines; with it, nothing and offset 0 when it is not
\* positive, else what TailBefore(limit, before) returns.
handleAuditLogs(file, limitQ, hasBefore, before) ==
    LET limit == AuditLimit(limitQ) IN
    IF ~hasBefore
    THEN LET lines == LoggerTail(file, limit) IN
         [lines |-> lines, offset |-> Len(lines)]
    ELSE IF before <= 0
    THEN [lines |-> <<>>, offset |-> 0]
    ELSE TailBefore(file, limit, before)

\* The Audit page, first load: GET /api/audit/logs?limit=.
AuditFirst ==
    /\ pgPc = "start"
    /\ LET resp == handleAuditLogs(auditLog, pgLimit, FALSE, 0) IN
       /\ pgPages'  = <<resp.lines>>
       /\ pgOffset' = resp.offset
    /\ pgPc' = "paging"
    /\ UNCHANGED <<auditLog, pgLimit, probe, auditOthers>>

\* The Audit page asks for the page before the offset of its last answer,
\* until a page comes back empty.
AuditOlder ==
    /\ pgPc = "paging"
    /\ LET resp == handleAuditLogs(auditLog, pgLimit, TRUE, pgOffset) IN
       /\ pgPages'  = Append(pgPages, resp.lines)
       /\ pgOffset' = resp.offset
       /\ pgPc'     = IF resp.lines = <<>> THEN "done" ELSE "paging"
    /\ UNCHANGED <<auditLog, pgLimit, probe, auditOthers>>

\* Logger.TailBefore called with any offset k.
AuditProbe(k) ==
    /\ probe' = [k |-> k] @@ TailBefore(auditLog, AuditLimit(pgLimit), k)
    /\ UNCHANGED <<auditLog, pgLimit, pgPc, pgPages, pgOffset, auditOthers>>

(***************************************************************************)
(* store.runMigrations                                                     *)
(***************************************************************************)
\* The versions of the list `migrations`, in the order of the list.
Migrations == <<1, 2, 3, 4, 5, 6>>

MaxRuns == 2      \* runs of runMigrations on one database file

\* The database file: PRAGMA user_version and the migrations whose up step
\* has been committed, in the order of the commits.
Db(version, applied) == [version |-> version, applied |-> applied]

\* One call of runMigrations: where it is, the index of the next entry of
\* the list, the version read at the beginning, the migrations it has
\* committed, and the migration it returned an error for (0: none).
MigRun(pc, idx, current, applied, startV, failedAt) ==
    [pc |-> pc, idx |-> idx, current |-> current, applied |-> applied,
     startV |-> startV, failedAt |-> failedAt]

MigNone == MigRun("none", 0, 0, <<>>, 0, 0)

MigIdle ==
    /\ db      = Db(0, <<>>)
    /\ migRun  = MigNone
    /\ migPrev = MigNone
    /\ migRuns = 0

\* A loop that runs every entry of the list again.
PendingAll(version, current) == TRUE

\* The test of the loop: `if m.version <= current { continue }`.
Pending(version, current) == ~(version <= current)

\* A transaction whose failure after the up step leaves the step's effects.
ApplyInTxNoRollback(d, version, outcome) ==
    IF outcome = "ok"
    THEN Db(version, Append(d.applied, version))
    ELSE IF outcome \in {"versionFail", "commitFail"}
    THEN Db(d.version, Append(d.applied, version))
    ELSE d

\* db.Begin, m.up(tx), setSchemaVersion(tx, m.version), tx.Commit: the up
\* step and the new user_version are in the file together after the commit,
\* and neither is after a Rollback or a Commit that failed.
ApplyInTx(d, version, outcome) ==
    IF outcome = "ok"
    THEN Db(version, Append(d.applied, version))
    ELSE d

TxOutcomes == {"ok", "beginFail", "upFail", "versionFail", "commitFail"}

\* NewProjectStore calls runMigrations; getSchemaVersion, whose error ends
\* the call.
RunMigrationsBegin(readOk) ==
    /\ migRun.pc \in {"none", "done", "failed"}
    /\ migRuns < MaxRuns
    /\ migRuns' = migRuns + 1
    /\ migPrev' = migRun
    /\ migRun'  = IF readOk
                  THEN MigRun("loop", 1, db.version, <<>>, db.version, 0)
                  ELSE MigRun("failed", 0, 0, <<>>, db.version, 0)
    /\ UNCHANGED <<db, migOthers>>

\* One turn of `for _, m := range migrations`: an entry that is not pending
\* is passed over; a pending one runs in its transaction, and any error
\* ends the call.
RunMigrationsStep(outcome) ==
    /\ migRun.pc = "loop"
    /\ migRun.idx <= Len(Migrations)
    /\ LET m == Migrations[migRun.idx] IN
       IF ~Pending(m, migRun.current)
       THEN /\ outcome = "ok"
            /\ migRun' = [migRun EXCEPT !.idx = @ + 1]
            /\ UNCHANGED db
       ELSE /\ db' = ApplyInTx(db, m, outcome)
            /\ migRun' = IF outcome = "ok"
                         THEN [migRun EXCEPT !.idx = @ + 1,
                                             !.applied = Append(@, m)]
                         ELSE [migRun EXCEPT !.pc = "failed", !.failedAt = m]
    /\ UNCHANGED <<migPrev, migRuns, migOthers>>

\* The end of the list: `return nil`.
RunMigrationsReturn ==
    /\ migRun.pc = "loop"
    /\ migRun.idx > Len(Migrations)
    /\ migRun' = [migRun EXCEPT !.pc = "done"]
    /\ UNCHANGED <<db, migPrev, migRuns, migOthers>>

(***************************************************************************)
(* A panic inside a background goroutine                                   *)
(***************************************************************************)
BgSlots == {"g1", "g2"}

BgKinds == {"create", "start", "stop", "delete", "update-odoo", "update-repo",
            "restart"}

\* A goroutine: what it was forked for, the id it was given, the row its
\* closure holds (update-odoo, update-repo and restart capture the
\* project the handler read) and where it is.
Bg(kind, id, snap, pc) == [kind |-> kind, id |-> id, snap |-> snap, pc |-> pc]

BgNone == Bg("none", "none", NoRow, "none")

BgIdle == bg = [g \in BgSlots |-> BgNone]

\* The deferred function of each goroutine:
\*   createProjectContainers, startProjectContainers: recover, Get, and for
\*     a row found status "error", Update, project_status_changed;
\*   the goroutines of handleUpdateOdoo and handleUpdateRepos: recover, the
\*     captured project with status "error", Update, project_status_changed;
\*   the goroutine of handleRestartOdoo: recover and a log line;
\*   stopProjectContainers, deleteProject: none.
DeferredOf(kind) ==
    CASE kind \in {"create", "start"}             -> "get"
      [] kind \in {"update-odoo", "update-repo"}  -> "captured"
      [] kind = "restart"                         -> "log"
      [] OTHER                                    -> "none"

\* The goroutine g panics.  Recovered, it runs its deferred function and
\* ends; not recovered, the panic ends the process, and with it every
\* goroutine and the hub.
BgPanic(g) ==
    /\ phase = "serving"
    /\ bg[g].pc = "running"
    /\ LET id   == bg[g].id
           how  == DeferredOf(bg[g].kind)
           evt  == Evt("project_status_changed", id, "error") IN
       CASE how = "get" ->
              /\ IF StoreHas(store, id)
                 THEN /\ store'  = StoreUpdate(store, id,
                                      [store[id] EXCEPT !.status = "error"]).st
                      /\ pubLog' = Append(pubLog, evt)
                 ELSE UNCHANGED <<store, pubLog>>
              /\ bg' = [bg EXCEPT ![g].pc = "recovered"]
              /\ UNCHANGED <<phase, staleFixed>>
         [] how = "captured" ->
              /\ store'  = StoreUpdate(store, id,
                              [bg[g].snap EXCEPT !.status = "error"]).st
              /\ pubLog' = Append(pubLog, evt)
              /\ bg' = [bg EXCEPT ![g].pc = "recovered"]
              /\ UNCHANGED <<phase, staleFixed>>
         [] how = "log" ->
              /\ bg' = [bg EXCEPT ![g].pc = "recovered"]
              /\ UNCHANGED <<store, pubLog, phase, staleFixed>>
         [] OTHER ->
              /\ phase'      = "boot"
              /\ staleFixed' = 0
              /\ pubLog'     = <<>>
              /\ bg' = [h \in BgSlots |->
                          IF h = g THEN [bg[h] EXCEPT !.pc = "crashed"]
                          ELSE IF bg[h].pc = "running"
                          THEN [bg[h] EXCEPT !.pc = "gone"]
                          ELSE bg[h]]
              /\ UNCHANGED store
    /\ UNCHANGED <<odooState, dockerMgr, postPc, postBody, postResp, ctSnap,
                   respBody, hubVars, bkVars, taskVars, dockerVars, bgOthers>>

(***************************************************************************)
(* deleteProject, statement by statement                                   *)
(***************************************************************************)
DelTasks == {"d1", "d2"}

\* A DELETE request and its goroutine: where it is, the project and the
\* repositories of the row the handler read, and the steps done so far.
Del(pc, id, cfg, trace) == [pc |-> pc, id |-> id, cfg |-> cfg, trace |-> trace]

DelNone == Del("idle", "none", {}, <<>>)

DelIdle == del = [d \in DelTasks |-> DelNone]

\* A deleteProject that publishes project_deleted whatever Delete returned.
DeleteFailedGoesOn(deleteOk) == "publish"

\* deleteProject after ProjectStore.Delete: `return` on an error, else on
\* to the Publish.
AfterStoreDelete(deleteOk) == IF deleteOk THEN "publish" ELSE "returned"

\* DELETE /api/projects/{id}: Get (404), project_action_pending
\* "deleting", 202, `go h.deleteProject(project)`.
DelAccept(d, id) ==
    /\ phase = "serving"
    /\ del[d].pc = "idle"
    /\ IF ~StoreHas(store, id)
       THEN /\ del' = [del EXCEPT ![d] = Del("notFound", id, {}, <<>>)]
            /\ UNCHANGED pubLog
       ELSE /\ del' = [del EXCEPT ![d] = Del("containers", id, repoCfg, <<>>)]
            /\ pubLog' = Append(pubLog, Evt("project_action_pending", id, "deleting"))
    /\ UNCHANGED <<store, odooState, dockerMgr, dockerVars, delOthers>>

\* deleteProject, lines 456-460: with a Docker manager, Manager.RemoveProject;
\* its error is logged.
DelContainers(d, fail) ==
    /\ del[d].pc = "containers"
    /\ IF dockerMgr
       THEN DkApply(RemoveProject(Daemon, del[d].id, fail))
       ELSE UNCHANGED <<containers, dockerSeq, confDir>>
    /\ del' = [del EXCEPT ![d].pc = "clones",
                          ![d].trace = IF dockerMgr THEN Append(@, "containers") ELSE @]
    /\ UNCHANGED <<repoDirs, repoCfg, delSnap, dkOut, worldVars, delOthers>>

\* lines 462-479: RemoveRepo, RemoveEnterpriseRepo and RemoveDesignThemesRepo
\* for what the row has configured; their errors are logged.
DelClones(d, fsOk) ==
    /\ del[d].pc = "clones"
    /\ repoDirs' = IF fsOk THEN repoDirs \ {<<del[d].id, k>> : k \in del[d].cfg}
                   ELSE repoDirs
    /\ del' = [del EXCEPT ![d].pc = "row", ![d].trace = Append(@, "clones")]
    /\ UNCHANGED <<containers, dockerSeq, confDir, repoCfg, delSnap, dkOut,
                   worldVars, delOthers>>

\* lines 481-484: ProjectStore.Delete; on an error the goroutine returns.
DelRow(d, deleteOk) ==
    /\ del[d].pc = "row"
    /\ store' = IF deleteOk THEN StoreDelete(store, del[d].id) ELSE store
    /\ del' = [del EXCEPT ![d].pc = AfterStoreDelete(deleteOk),
                          ![d].trace = IF deleteOk THEN Append(@, "row") ELSE @]
    /\ UNCHANGED <<odooState, dockerMgr, pubLog, dockerVars, delOthers>>

\* lines 486-489: project_deleted.
DelPublish(d) ==
    /\ del[d].pc = "publish"
    /\ pubLog' = Append(pubLog, Evt("project_deleted", del[d].id, ""))
    /\ del' = [del EXCEPT ![d].pc = "done", ![d].trace = Append(@, "published")]
    /\ UNCHANGED <<store, odooState, dockerMgr, dockerVars, delOthers>>

(***************************************************************************)
(* audit.Logger: Log, Subscribe, Unsubscribe                               *)
(***************************************************************************)
\* make(chan Entry, 64)
AuditQueueDepth == 64

\* Channels that audit stream connections may create, and goroutines that log.
LogChans == {"a1", "a2"}
Loggers  == {"l1", "l2"}

\* Bound on the number of Log calls of a behaviour.
MaxLogs == 2

AlIdle ==
    al = [clients |-> {},
          state   |-> [c \in LogChans |-> "unmade"],
          buf     |-> [c \in LogChans |-> <<>>],
          pc      |-> [l \in Loggers |-> "idle"],
          entry   |-> [l \in Loggers |-> 0],
          todo    |-> [l \in Loggers |-> {}]]

\* An RWMutex that grants Lock() while goroutines hold RLock().
SubMuFreeNoExclusion == TRUE

\* l.subMu.Lock() is granted only while no goroutine holds l.subMu.RLock().
SubMuFree == \A l \in Loggers : al.pc[l] = "idle"

\* Logger.Subscribe: a fresh buffered channel is added under the write lock.
LoggerSubscribe(c) ==
    /\ al.state[c] = "unmade"
    /\ SubMuFree
    /\ al' = [al EXCEPT !.state[c] = "open", !.clients = @ \cup {c}]
    /\ UNCHANGED alOthers
    /\ UNCHANGED auditVars

\* Logger.Unsubscribe: delete from the map and close, under the write lock.
LoggerUnsubscribe(c) ==
    /\ al.state[c] = "open"
    /\ SubMuFree
    /\ al' = [al EXCEPT !.state[c] = "closed", !.clients = @ \ {c}]
    /\ UNCHANGED alOthers
    /\ UNCHANGED auditVars

\* Logger.Log up to l.subMu.RLock(): the line is appended to the file, then
\* the range loop will visit l.clients.
LoggerLogBegin(l) ==
    /\ al.pc[l] = "idle"
    /\ Len(auditLog) < MaxLogs
    /\ auditLog' = Append(auditLog, Len(auditLog) + 1)
    /\ al' = [al EXCEPT !.pc[l] = "locked",
                        !.entry[l] = Len(auditLog) + 1,
                        !.todo[l] = al.clients]
    /\ UNCHANGED alOthers
    /\ UNCHANGED <<pgLimit, pgPc, pgPages, pgOffset, probe>>

\* Logger.Log, one iteration of `for ch := range l.clients`:
\* select { case ch <- entry: default: }
LoggerLogSend(l, c) ==
    /\ al.pc[l] = "locked"
    /\ c \in al.todo[l]
    /\ al' = [al EXCEPT !.todo[l] = @ \ {c},
                        !.buf[c] = IF Len(@) < AuditQueueDepth
                                   THEN Append(@, al.entry[l]) ELSE @]
    /\ UNCHANGED alOthers
    /\ UNCHANGED auditVars

\* Logger.Log, return: l.subMu.RUnlock().
LoggerLogEnd(l) ==
    /\ al.pc[l] = "locked"
    /\ al.todo[l] = {}
    /\ al' = [al EXCEPT !.pc[l] = "idle", !.entry[l] = 0]
    /\ UNCHANGED alOthers
    /\ UNCHANGED auditVars

(***************************************************************************)
(* gitops.CloneOrPull, CloneOrPullEnterprise, CloneOrPullDesignThemes      *)
(***************************************************************************)
\* The clone directory of one project for each kind of repository: "none"
\* (it does not exist) or "clone" (a checkout with its .git).
GtDirStates == {"none", "clone"}

GtNone == [kind |-> "none", branch |-> "none", err |-> FALSE, marker |-> FALSE]

GtIdle ==
    gt = [dir    |-> [k \in RepoKinds |-> "none"],
          failed |-> [k \in RepoKinds |-> FALSE],
          last   |-> GtNone]

\* os.Stat(filepath.Join(dir, ".git")) finds the marker.
HasGitMarker(d) == d # "none"

\* The directory after one call: without the marker, git clone, and
\* os.RemoveAll(dir) when it failed; with the marker, git pull, and the
\* directory stays whatever pull returned.
DirAfterCloneOrPull(d, gitOk) ==
    IF ~HasGitMarker(d)
    THEN (IF gitOk THEN "clone" ELSE "none")
    ELSE d

\* CloneOrPull and its two variants for the directory of `kind`: gitOk is
\* the outcome of the git command.
CloneOrPull(kind, gitOk) ==
    /\ gt' = [gt EXCEPT
                !.dir[kind] = DirAfterCloneOrPull(@, gitOk),
                !.failed[kind] = ~gitOk,
                !.last = [kind |-> kind,
                          branch |-> IF HasGitMarker(gt.dir[kind])
                                     THEN "pull" ELSE "clone",
                          err |-> ~gitOk,
                          marker |-> HasGitMarker(gt.dir[kind])]]
    /\ UNCHANGED gtOthers

\* RemoveRepo, RemoveEnterpriseRepo, RemoveDesignThemesRepo: os.RemoveAll of
\* the directory when it exists.
RemoveRepo(kind, rmOk) ==
    /\ gt.dir[kind] # "none"
    /\ gt' = [gt EXCEPT !.dir[kind] = IF rmOk THEN "none" ELSE @,
                        !.failed[kind] = FALSE,
                        !.last = [GtNone EXCEPT !.kind = kind, !.branch = "remove",
                                                !.err = ~rmOk]]
    /\ UNCHANGED gtOthers

(***************************************************************************)
(* handleCleanContainers, statement by statement                           *)
(***************************************************************************)
SwNone == [pc |-> "idle", ids |-> {}, all |-> <<>>, todo |-> {},
           removed |-> {}, err |-> FALSE]

SwIdle == sw = SwNone

\* POST /api/maintenance/clean-containers, the argument of the call:
\* h.knownProjectIDs() reads store.List() before CleanOrphanedContainers is
\* entered.
SweepSnapshot ==
    /\ dockerMgr
    /\ sw.pc = "idle"
    /\ sw' = [SwNone EXCEPT !.pc = "snap", !.ids = knownProjectIDs]
    /\ UNCHANGED swOthers

\* CleanOrphanedContainers, ContainerList{All: true}: the containers of the
\* daemon at that moment, or the error, which ends the request.
SweepList(fail) ==
    /\ sw.pc = "snap"
    /\ sw' = IF fail = "list"
             THEN [sw EXCEPT !.pc = "done", !.err = TRUE]
             ELSE [sw EXCEPT !.pc = "loop", !.all = containers,
                             !.todo = DOMAIN containers]
    /\ UNCHANGED swOthers

\* CleanOrphanedContainers, one iteration of the loop over the list: a
\* container that isOwnedContainer accepts for the ids read at the beginning
\* is skipped; any other is removed by its id (an error, also that of a
\* container that is gone, goes to Errors).
SweepRemove(n, fail) ==
    /\ sw.pc = "loop"
    /\ n \in sw.todo
    /\ LET c == sw.all[n]
           there == Exists(containers, n) /\ containers[n].cid = c.cid
       IN  IF isOwnedContainer(c, sw.ids)
           THEN /\ sw' = [sw EXCEPT !.todo = @ \ {n}]
                /\ UNCHANGED containers
           ELSE IF fail = "remove" \/ ~there
           THEN /\ sw' = [sw EXCEPT !.todo = @ \ {n}]
                /\ UNCHANGED containers
           ELSE /\ sw' = [sw EXCEPT !.todo = @ \ {n}, !.removed = @ \cup {n}]
                /\ containers' = DaemonRemove(containers, n)
    /\ UNCHANGED <<dockerSeq, confDir, repoDirs, repoCfg, delSnap, dkOut,
                   worldVars, hubVars, bkVars, apiVars, taskVars,
                   earlyExt, lateOld, bgVars, delVars, alVars, gtVars>>

\* CleanOrphanedContainers returns and the handler answers with the result.
SweepReturn ==
    /\ sw.pc = "loop"
    /\ sw.todo = {}
    /\ sw' = [sw EXCEPT !.pc = "done"]
    /\ UNCHANGED swOthers

\* The state of the variables above when their subsystem is not driven.
MoreIdle == BgIdle /\ DelIdle /\ AlIdle /\ GtIdle /\ SwIdle

LateIdle == NfIdle /\ GitIdle /\ AuditIdle /\ MigIdle /\ MoreIdle

ExtIdle == ConfIdle /\ SetIdle /\ HealthIdle /\ BkDiskIdle /\ LateIdle

(***************************************************************************)
(* Specifications: backups                                                 *)
(***************************************************************************)
BkNext == \E r \in BkReqs : BkRequestStep(r)

\* A serving process with one project, p1, running; the other ids are not
\* in the store.
BkInit ==
    /\ BkIdle
    /\ HubIdle
    /\ store = [id \in {"p1"} |-> Row("a", 8069, "running")]
    /\ odooState = [id \in ProjIds |->
                      IF id = "p1" THEN "running" ELSE "stopped"]
    /\ dockerMgr \in BOOLEAN
    /\ pubLog = <<>>
    /\ ApiIdle
    /\ TaskIdle
    /\ DockerIdle
    /\ ExtIdle

SpecBackup == BkInit /\ [][BkNext]_vars

\* Every request goroutine that has passed the project check keeps running
\* until the handler and its deferred calls have returned.
FairBackup ==
    SpecBackup /\ \A r \in BkReqs : WF_vars(bkPc[r] # "idle" /\ BkRequestStep(r))


\* The requests that hold project id in backupsRunning.
BkHolders(id) == {r \in BkReqs : BkHolds(r) /\ bkProj[r] = id}

\* C1: for every project at most one backup request is past the
\* single-flight check at any instant, and the set backupsRunning holds
\* exactly the projects with such a request; a request that reaches the
\* check while its project is in the set is answered 409, leaves the set as
\* it is and starts no exec (no request answered 409 ever started one).
C1_SingleFlightBackup ==
    /\ [](\A id \in ProjIds : Cardinality(BkHolders(id)) <= 1)
    /\ [](backupsRunning = {id \in ProjIds : BkHolders(id) # {}})
    /\ [](\A r \in BkReqs : bkResp[r].code = 409 => r \notin bkExecs)
    /\ [][\A r \in BkReqs :
            (bkPc[r] = "lock" /\ bkPc'[r] # "lock" /\ bkProj[r] \in backupsRunning) =>
                /\ bkResp'[r].code = 409
                /\ bkPc'[r] = "done"
                /\ backupsRunning' = backupsRunning
                /\ bkExecs' = bkExecs]_vars

\* C1 witness: a request was answered 409 "already in progress" while
\* another request holds the same project and has started its exec.
C1_Witness ==
    \E r1 \in BkReqs, r2 \in BkReqs :
        /\ r1 # r2 /\ bkProj[r1] = bkProj[r2]
        /\ BkHolds(r1) /\ r1 \in bkExecs
        /\ bkPc[r2] = "done"
        /\ bkResp[r2] = Resp(409, "A backup is already in progress for this project")

\* Request r published project_backup_done after its project_backup_pending.
BkDoneAfterPending(r) ==
    \E i \in 1..Len(pubLog), j \in 1..Len(pubLog) :
        /\ i < j
        /\ pubLog[i] = Evt("project_backup_pending", bkProj[r], r)
        /\ pubLog[j] = Evt("project_backup_done", bkProj[r], r)

\* A request that got past the single-flight check has returned for good.
BkFinished(r) == bkPc[r] = "done" /\ bkResp[r].code \in {200, 500}

\* C2: a backup request that inserted its project id into backupsRunning
\* eventually returns, whatever the exit path; when it has returned it no
\* longer holds the id and has published project_backup_done after its
\* project_backup_pending; a project no request holds is not in the set;
\* and once the id is out of the set a request that reaches the check is
\* accepted.
C2_BackupAlwaysReleased ==
    /\ \A r \in BkReqs : BkHolds(r) ~> BkFinished(r)
    /\ [](\A r \in BkReqs : BkFinished(r) => BkDoneAfterPending(r))
    /\ [](\A id \in ProjIds : BkHolders(id) = {} => id \notin backupsRunning)
    /\ [][\A r \in BkReqs :
            (bkPc[r] = "lock" /\ bkPc'[r] # "lock" /\ bkProj[r] \notin backupsRunning) =>
                /\ bkPc'[r] = "pending"
                /\ bkProj[r] \in backupsRunning']_vars

\* C2 witness: after a backup of a project ended with an error frame, a
\* later request for the same project was accepted and holds the id.
C2_Witness ==
    \E r1 \in BkReqs, r2 \in BkReqs :
        /\ r1 # r2 /\ bkProj[r1] = bkProj[r2]
        /\ BkFinished(r1) /\ bkFrame[r1] = "error"
        /\ BkHolds(r2)
        /\ pubLog = << Evt("project_backup_pending", bkProj[r1], r1),
                       Evt("project_backup_done", bkProj[r1], r1),
                       Evt("project_backup_pending", bkProj[r2], r2) >>

\* The backups with every way CopyBackupFromContainer can fail on the host.
BkFileNext ==
    \/ BkNext
    \/ \E r \in BkReqs, outcome \in {"nocreate", "nowrite"} : BkCopy(r, outcome)

SpecBackupFile == BkInit /\ [][BkFileNext]_vars

\* C25: a backup stream emits `complete` only after the exec finished with
\* exit code 0 and the backup file was written on the host; a stream that
\* emitted `error` never emits `complete`, and a stream emits at most one of
\* the two.
C25_CompleteAfterFile ==
    [][\A r \in BkReqs :
          /\ bkFrame'[r] # bkFrame[r] => bkFrame[r] = "none"
          /\ (bkFrame'[r] = "complete" /\ bkFrame[r] # "complete")
                 => /\ r \in bkExecs
                    /\ r \in bkExited
                    /\ bkFile'[r] = "whole"]_vars

\* One stream has ended with `error` and a partial file on the host, another
\* with `complete`.
C25_Witness ==
    \E r1 \in BkReqs, r2 \in BkReqs :
        /\ bkFrame[r1] = "error" /\ bkFile[r1] = "partial" /\ r1 \in bkExited
        /\ bkFrame[r2] = "complete" /\ bkFile[r2] = "whole"

(***************************************************************************)
(* Specifications: concurrent creates and edits                            *)
(***************************************************************************)
\* The body of a PUT that edits name and port (and sets the status the form
\* shows).
RestingBodyStatuses == {"running"}

StoreNext ==
    \/ \E r \in PostReqs, name \in Names, port \in Ports : PostBegin(r, name, port)
    \/ \E r \in PostReqs, gitOk \in BOOLEAN : PostPortChk(r, gitOk)
    \/ \E r \in PostReqs : PostInsert(r)
    \/ \E r \in PostReqs : CtBegin(r)
    \/ \E r \in PostReqs, created \in BOOLEAN : CtFinish(r, created)
    \/ \E id \in ProjIds, name \in Names, port \in Ports, status \in RestingBodyStatuses :
          PutProject(id, name, port, status)
    \/ \E id \in ProjIds, cstate \in ContainerStates, inspectFails \in BOOLEAN :
          GetProject(id, cstate, inspectFails)

\* A serving process with one project at rest.
StoreInit ==
    /\ HubIdle
    /\ BkIdle
    /\ ApiIdle
    /\ TaskIdle
    /\ DockerIdle
    /\ ExtIdle
    /\ store     = [id \in {"p1"} |-> Row("a", 8069, "stopped")]
    /\ odooState = [id \in ProjIds |-> "absent"]
    /\ dockerMgr = TRUE
    /\ pubLog    = <<>>

SpecStore == StoreInit /\ [][StoreNext]_vars

\* C3: in every reachable state of the store no two distinct projects share
\* a name and no two distinct projects share a port, whatever the
\* interleaving of creates, edits, reconciliation writes and the writes of
\* the creation tasks.
C3_NamesAndPortsUnique ==
    \A p, q \in DOMAIN store :
        p # q => store[p].name # store[q].name /\ store[p].port # store[q].port

\* Two projects are stored and a create that had passed NameExists and
\* PortExists was refused by the table.
C3_Witness ==
    /\ Cardinality(DOMAIN store) = 2
    /\ \E r \in PostReqs : postPc[r] = "done" /\ postResp[r] = 500

\* C4: a POST /api/projects whose name or port is that of a project in the
\* store at the moment it is answered (validation errors aside) is answered
\* with 409, and the store is left as it was.
C4_DuplicateCreateIs409 ==
    [][\A r \in PostReqs :
          ( /\ postResp[r] = 0
            /\ postResp'[r] \notin {0, 400}
            /\ \/ NameExists(store, postBody'[r].name)
               \/ PortExists(store, postBody'[r].port) )
          => (postResp'[r] = 409 /\ store' = store)]_vars

\* Two creates of the same name and port were in flight together: one was
\* answered 201, the other 500.
C4_Witness ==
    \E r1 \in PostReqs, r2 \in PostReqs :
        /\ postBody[r1] = postBody[r2]
        /\ postResp[r1] = 201
        /\ postResp[r2] = 500


\* The events published for project id, in the order of their publication.
EventsOf(id) ==
    LET Mine(e) == e.id = id IN SelectSeq(pubLog, Mine)

\* The events of a create that went well.
CreateEvents(id) ==
    << Evt("project_created", id, "creating"),
       Evt("project_action_pending", id, "creating"),
       Evt("project_status_changed", id, "stopped") >>

\* C14: a create that succeeds publishes project_created, then
\* project_action_pending "creating", then project_status_changed
\* "stopped", in that order; and when project_created is published and the
\* 201 is answered the row is in the store with status "creating".
C14_CreateEventOrder ==
    [][\A r \in PostReqs :
         LET id == NewId[r] IN
         /\ (postResp'[r] = 201 /\ postResp[r] # 201)
               => /\ StoreHas(store', id) /\ store'[id].status = "creating"
                  /\ ~StoreHas(store, id)
                  /\ pubLog' = Append(pubLog, Evt("project_created", id, "creating"))
         /\ (EventsOf(id)' # <<>>) => postResp'[r] = 201
         /\ (/\ EventsOf(id)' # EventsOf(id)
             /\ EventsOf(id)'[Len(EventsOf(id)')] =
                    Evt("project_status_changed", id, "stopped"))
               => EventsOf(id)' = CreateEvents(id)]_vars

\* A create went well: 201, the three events, the goroutine has returned.
C14_Witness ==
    \E r \in PostReqs :
        /\ postResp[r] = 201
        /\ postPc[r] = "done"
        /\ EventsOf(NewId[r]) = CreateEvents(NewId[r])

(***************************************************************************)
(* Specifications: the project API across restarts                         *)
(***************************************************************************)
\* The one create request of this specification.
BootPostReqs == {"c1"}

BootNext ==
    \/ MainReconcile
    \/ MainServe
    \/ Crash
    \/ \E r \in BootPostReqs, name \in Names, port \in Ports : PostBegin(r, name, port)
    \/ \E r \in BootPostReqs, gitOk \in BOOLEAN : PostPortChk(r, gitOk)
    \/ \E r \in BootPostReqs : PostInsert(r)
    \/ \E r \in BootPostReqs : CtBegin(r)
    \/ \E r \in BootPostReqs, created \in BOOLEAN : CtFinish(r, created)
    \/ \E id \in ProjIds, name \in Names, port \in Ports, status \in BodyStatuses :
          PutProject(id, name, port, status)
    \/ \E id \in ProjIds, cstate \in ContainerStates, inspectFails \in BOOLEAN :
          GetProject(id, cstate, inspectFails)

\* The process starts on the database a previous process left: one project,
\* at rest or caught in its creation.
BootInit ==
    /\ HubIdle
    /\ BkIdle
    /\ TaskIdle
    /\ DockerIdle
    /\ ExtIdle
    /\ phase      = "boot"
    /\ staleFixed = 0
    /\ postPc     = [r \in PostReqs |-> "idle"]
    /\ postBody   = [r \in PostReqs |-> NoBody]
    /\ postResp   = [r \in PostReqs |-> 0]
    /\ ctSnap     = [r \in PostReqs |-> NoRow]
    /\ respBody   = "none"
    /\ \E s \in {"stopped", "creating"} : store = [id \in {"p1"} |-> Row("a", 8069, s)]
    /\ odooState  = [id \in ProjIds |-> "absent"]
    /\ dockerMgr \in BOOLEAN
    /\ pubLog     = <<>>

SpecBoot == BootInit /\ [][BootNext]_vars

\* C5: every status in the store, in the project JSON of an API response and
\* in a project_status_changed event is one of the nine enumerated values.
C5_StatusEnumerated ==
    /\ \A id \in DOMAIN store : store[id].status \in Statuses
    /\ respBody \in Statuses \cup {"none"}
    /\ \A i \in DOMAIN pubLog :
          pubLog[i].type = "project_status_changed" => pubLog[i].data \in Statuses

\* A PUT has stored, and answered with, a status outside the enumeration.
C5_Witness ==
    \E id \in DOMAIN store :
        store[id].status = "bogus" /\ respBody = "bogus"

TaskNext ==
    \/ \E t \in Tasks, id \in ProjIds : HandleStart(t, id)
    \/ \E t \in Tasks, inspectFails \in BOOLEAN : HandleStartAct(t, inspectFails)
    \/ \E t \in Tasks, id \in ProjIds : HandleStop(t, id)
    \/ \E t \in Tasks, inspectFails \in BOOLEAN : HandleStopAct(t, inspectFails)
    \/ \E t \in Tasks : StartGet(t)
    \/ \E t \in Tasks, dockerOk \in BOOLEAN : StartRun(t, dockerOk)
    \/ \E t \in Tasks : StopGet(t)
    \/ \E t \in Tasks, dockerOk \in BOOLEAN : StopRun(t, dockerOk)
    \/ \E t \in Tasks, id \in ProjIds : HandleDelete(t, id)
    \/ \E t \in Tasks : DeleteRun(t)

\* A serving process with one project, created and stopped.
TaskInit ==
    /\ HubIdle
    /\ BkIdle
    /\ ApiIdle
    /\ TaskIdle
    /\ DockerIdle
    /\ ExtIdle
    /\ store     = [id \in {"p1"} |-> Row("a", 8069, "stopped")]
    /\ odooState = [id \in ProjIds |-> IF id = "p1" THEN "stopped" ELSE "absent"]
    /\ dockerMgr \in BOOLEAN
    /\ pubLog    = <<>>

SpecTasks == TaskInit /\ [][TaskNext]_vars

\* C7: whenever project_status_changed with status X is published for a
\* project, the store row of that project has status X at that moment.
C7_PublishedStatusIsStored ==
    [][(Len(pubLog') = Len(pubLog) + 1
        /\ pubLog'[Len(pubLog')].type = "project_status_changed") =>
           LET e == pubLog'[Len(pubLog')] IN
           /\ StoreHas(store', e.id)
           /\ store'[e.id].status = e.data]_vars

\* project_status_changed "running" was published last for a project whose
\* row deleteProject had removed.
C7_Witness ==
    /\ pubLog # <<>>
    /\ pubLog[Len(pubLog)].type = "project_status_changed"
    /\ pubLog[Len(pubLog)].data = "running"
    /\ ~StoreHas(store, pubLog[Len(pubLog)].id)

\* C8: for every project at most one forked goroutine is in flight.
C8_OneTaskPerProject ==
    \A id \in ProjIds :
        Cardinality({t \in Tasks : taskPc[t] \in TaskInFlight /\ taskProj[t] = id}) <= 1

\* Two startProjectContainers goroutines work on the same project.
C8_Witness ==
    \E t1 \in Tasks, t2 \in Tasks :
        /\ t1 # t2 /\ taskProj[t1] = taskProj[t2]
        /\ taskPc[t1] = "startRun" /\ taskPc[t2] = "startRun"

\* The two handlers: the position past the Get, the target status, the
\* pending status, the position of the forked goroutine.
ActionKinds ==
    { <<"startChk", "running", "starting", "startGet">>,
      <<"stopChk", "stopped", "stopping", "stopGet">> }

\* C15: POST start and POST stop reconcile first; when the project is in the
\* target state already they publish project_status_changed with it, answer
\* 200 and fork nothing; otherwise they publish project_action_pending
\* "starting" / "stopping", answer 202 and fork one goroutine.
C15_StartStopHandler ==
    [][\A t \in Tasks, k \in ActionKinds :
         (taskPc[t] = k[1] /\ taskPc'[t] # k[1]) =>
            LET id   == taskProj[t]
                read == taskSnap[t].status
                \* what reconciling the row the handler read can give
                reconciled ==
                    IF read \in {"creating", "deleting", "starting", "stopping",
                                 "updating", "updating-repo"}
                    THEN {read}
                    ELSE {"error",
                          IF odooState[id] = "running" THEN "running" ELSE "stopped"}
            IN  /\ \A u \in Tasks \ {t} : taskPc'[u] = taskPc[u]
                /\ \E actual \in reconciled :
                     /\ store' = IF actual # read /\ StoreHas(store, id)
                                 THEN [store EXCEPT ![id] =
                                          [taskSnap[t] EXCEPT !.status = actual]]
                                 ELSE store
                     /\ IF actual = k[2]
                        THEN /\ pubLog' = Append(pubLog,
                                    Evt("project_status_changed", id, k[2]))
                             /\ taskResp'[t] = 200
                             /\ taskPc'[t] = "done"
                        ELSE /\ pubLog' = Append(pubLog,
                                    Evt("project_action_pending", id, k[3]))
                             /\ taskResp'[t] = 202
                             /\ taskPc'[t] = k[4]]_vars

\* A stop request found the project stopped and answered 200, and a start
\* request on it was answered 202.
C15_Witness ==
    \E t \in Tasks, u \in Tasks :
        /\ taskProj[t] = "p1" /\ taskResp[t] = 200 /\ taskPc[t] = "done"
        /\ taskProj[u] = "p1" /\ taskResp[u] = 202
        /\ Evt("project_status_changed", "p1", "stopped") \in
              {pubLog[i] : i \in 1..Len(pubLog)}
        /\ Evt("project_action_pending", "p1", "starting") \in
              {pubLog[i] : i \in 1..Len(pubLog)}

\* A step of the request t past its first read of the store: the rest of
\* the handler, or a step of the goroutine it forked.
TaskStep(t) ==
    \/ \E inspectFails \in BOOLEAN : HandleStartAct(t, inspectFails)
    \/ \E inspectFails \in BOOLEAN : HandleStopAct(t, inspectFails)
    \/ StartGet(t)
    \/ \E dockerOk \in BOOLEAN : StartRun(t, dockerOk)
    \/ StopGet(t)
    \/ \E dockerOk \in BOOLEAN : StopRun(t, dockerOk)
    \/ DeleteRun(t)

\* Handlers and goroutines keep running and the Docker calls return.
FairTasks == SpecTasks /\ \A t \in Tasks : WF_vars(TaskStep(t))

\* The positions of the events the requests can publish: two for each.
LogIdx == 1..(2 * Cardinality(Tasks))

\* The i-th published event is project_action_pending.
PendingAt(i) ==
    Len(pubLog) >= i /\ pubLog[i].type = "project_action_pending"

\* An event after the i-th is project_status_changed or project_deleted for
\* the same project.
FollowedAt(i) ==
    \E j \in (i + 1)..Len(pubLog) :
        /\ pubLog[j].id = pubLog[i].id
        /\ pubLog[j].type \in {"project_status_changed", "project_deleted"}

\* C13: every project_action_pending is eventually followed by
\* project_status_changed or project_deleted for the same project.
C13_PendingIsFollowed ==
    \A i \in LogIdx : PendingAt(i) ~> FollowedAt(i)

\* The start handler published "starting" for a project that deleteProject
\* had removed since the handler read its row, and the goroutine it forked
\* has returned.
C13_Witness ==
    /\ pubLog # <<>>
    /\ pubLog[Len(pubLog)] = Evt("project_action_pending", "p1", "starting")
    /\ ~StoreHas(store, "p1")
    /\ \A t \in Tasks : taskPc[t] \in {"idle", "done"}

(***************************************************************************)
(* Specifications: docker.Manager                                          *)
(***************************************************************************)
\* Each Manager function is called with the kind of call that fails in it:
\* in one call of the function the Docker and file-system calls of kind
\* `fail` return an error other than not-found.
DockerNext ==
    \/ \E id \in DkProjs, dirs \in HostDirChoices,
          fail \in {"none", "inspect", "pull", "create", "fs"} :
           DkCreateProject(id, dirs[1], dirs[2], dirs[3], fail)
    \/ \E id \in DkProjs, dirs \in HostDirChoices,
          fail \in {"none", "inspect", "pull", "create", "start"} :
           DkStartProject(id, dirs[1], dirs[2], dirs[3], fail)
    \/ \E id \in DkProjs, fail \in {"none", "stop"} : DkStopProject(id, fail)
    \/ \E id \in DkProjs, dirs \in HostDirChoices,
          fail \in {"none", "inspect", "stop", "remove", "create", "start"} :
           DkRecreate(id, dirs[1], dirs[2], dirs[3], fail)
    \/ \E id \in DkProjs, dirs \in HostDirChoices,
          fail \in {"none", "inspect", "pull", "stop", "remove", "create", "start"} :
           DkUpdate(id, dirs[1], dirs[2], dirs[3], fail)
    \/ \E id \in DkProjs, status \in BodyStatuses, fail \in {"none", "inspect"} :
           DkReconcile(id, status, fail)
    \/ \E fail \in {"none", "list"} : DkListOrphaned(fail)
    \/ \E fail \in {"none", "list", "remove"} : DkCleanOrphaned(fail)

\* A serving process with one project, p1, whose containers do not exist
\* yet, on a daemon that also holds a container of its own and the odoo
\* container of a project that is gone.
DockerInit ==
    /\ DockerIdle
    /\ ExtIdle
    /\ store = [id \in {"p1"} |-> Row("a", 8069, "stopped")]
    /\ odooState = [id \in ProjIds |-> "stopped"]
    /\ dockerMgr = TRUE
    /\ pubLog = <<>>
    /\ HubIdle
    /\ BkIdle
    /\ ApiIdle
    /\ TaskIdle

SpecDocker == DockerInit /\ [][DockerNext]_vars

\* C11: ReconcileStatus returns the stored status as it is, and does not
\* inspect the container, when that status is one of the six transient
\* ones; for any other stored status it returns "running" when the odoo
\* container runs, "stopped" when it does not run or does not exist, and
\* "error" when the inspect failed for another reason.
C11_ReconcileStatus ==
    dkOut.op = "reconcile" =>
        IF dkOut.arg \in {"creating", "deleting", "starting", "stopping",
                          "updating", "updating-repo"}
        THEN dkOut.status = dkOut.arg /\ ~dkOut.inspected
        ELSE /\ dkOut.inspected
             /\ dkOut.status =
                    IF dkOut.err THEN "error"
                    ELSE IF /\ OdooName("p1") \in DOMAIN containers
                            /\ containers[OdooName("p1")].running
                         THEN "running" ELSE "stopped"

\* A project stored as "updating" whose odoo container runs was reconciled.
C11_Witness ==
    /\ dkOut.op = "reconcile"
    /\ dkOut.arg = "updating"
    /\ dkOut.status = "updating"
    /\ OdooName("p1") \in DOMAIN containers
    /\ containers[OdooName("p1")].running

\* C17: ListOrphanedContainers lists, and CleanOrphanedContainers removes,
\* exactly the containers that carry managed=true and whose project-id is
\* not an id of the store; a container without managed=true is never listed
\* or removed.
C17_OnlyManagedOrphans ==
    [][LET orphans == {n \in DOMAIN containers :
                          /\ containers[n].labels.managed = "true"
                          /\ containers[n].labels.projectId \notin DOMAIN store}
       IN  /\ (dkOut'.op = "list" /\ ~dkOut'.err) => dkOut'.names = orphans
           /\ (dkOut'.op = "clean" /\ ~dkOut'.err)
                 => /\ dkOut'.names \in {{}, orphans}
                    /\ DOMAIN containers' = DOMAIN containers \ dkOut'.names]_vars

\* CleanOrphanedContainers has removed the container that odoo-manager did
\* not create.
C17_Witness ==
    /\ dkOut.op = "clean"
    /\ ~dkOut.err
    /\ ForeignName \in dkOut.names
    /\ ForeignName \notin DOMAIN containers

\* C18: every container that CreateProject, StartProject,
\* RecreateOdooContainer or UpdateOdooContainer creates carries the three
\* labels: the id of its project, its role (odoo for odoo-<id>, postgres for
\* postgres-<id>) and managed=true.
C18_CreatedContainersLabelled ==
    [][\A n \in DOMAIN containers' :
         containers'[n].cid > dockerSeq =>
            /\ n[1] \in {"odoo", "postgres"}
            /\ containers'[n].labels.projectId = n[2]
            /\ containers'[n].labels.role = n[1]
            /\ containers'[n].labels.managed = "true"]_vars

\* RecreateOdooContainer has created odoo-p1 anew beside the postgres-p1 that
\* CreateProject or StartProject created.
C18_Witness ==
    /\ dkOut.op = "recreate"
    /\ ~dkOut.err
    /\ OdooName("p1") \in DOMAIN containers
    /\ containers[OdooName("p1")].cid = dockerSeq
    /\ PostgresName("p1") \in DOMAIN containers
    /\ containers[PostgresName("p1")].cid > 2

\* C19: after a successful UpdateOdooContainer on a project whose odoo
\* container existed, the new odoo container mounts at /var/lib/odoo the
\* volume the old one mounted there, the postgres container is the container
\* it was (not removed, not created anew), and the odoo container runs
\* exactly when it ran before.
C19_UpdateKeepsDataAndState ==
    [][(/\ dkOut'.op = "update"
        /\ ~dkOut'.err
        /\ OdooName("p1") \in DOMAIN containers)
       => /\ OdooName("p1") \in DOMAIN containers'
          /\ DataVolume(containers'[OdooName("p1")])
                 = DataVolume(containers[OdooName("p1")])
          /\ (PostgresName("p1") \in DOMAIN containers')
                 = (PostgresName("p1") \in DOMAIN containers)
          /\ PostgresName("p1") \in DOMAIN containers
                 => containers'[PostgresName("p1")].cid
                        = containers[PostgresName("p1")].cid
          /\ containers'[OdooName("p1")].running
                 = containers[OdooName("p1")].running]_vars

\* UpdateOdooContainer has replaced a running odoo-p1 by a new container
\* that mounts the volume of an earlier one and runs.
C19_Witness ==
    /\ dkOut.op = "update"
    /\ ~dkOut.err
    /\ OdooName("p1") \in DOMAIN containers
    /\ containers[OdooName("p1")].cid = dockerSeq
    /\ DataVolume(containers[OdooName("p1")]) # 0
    /\ DataVolume(containers[OdooName("p1")]) < dockerSeq
    /\ containers[OdooName("p1")].running

\* The bind mounts of a container: the mounts of host directories.
BindsOf(c) == {mp \in c.mounts : mp.vol = 0}

\* C20: RecreateOdooContainer called with the project and the three host
\* directories the existing odoo container was built from leaves an odoo
\* container with the same image, the same mounts (the volume at
\* /var/lib/odoo among them) and the same running state, and leaves the
\* postgres container as it was; when the odoo container does not exist the
\* call changes nothing.
C20_RecreateSameInputs ==
    [][(dkOut'.op = "recreate" /\ ~dkOut'.err)
       => IF OdooName("p1") \notin DOMAIN containers
          THEN containers' = containers
          ELSE /\ OdooName("p1") \in DOMAIN containers'
               /\ BindsOf(containers'[OdooName("p1")])
                      = BindsOf(containers[OdooName("p1")])
                  => /\ containers'[OdooName("p1")].image
                            = containers[OdooName("p1")].image
                     /\ containers'[OdooName("p1")].mounts
                            = containers[OdooName("p1")].mounts
                     /\ containers'[OdooName("p1")].running
                            = containers[OdooName("p1")].running
               /\ (PostgresName("p1") \in DOMAIN containers')
                      = (PostgresName("p1") \in DOMAIN containers)
               /\ PostgresName("p1") \in DOMAIN containers
                      => containers'[PostgresName("p1")]
                             = containers[PostgresName("p1")]]_vars

\* RecreateOdooContainer has replaced a running odoo-p1 that binds the
\* custom repository by a new running container with that bind.
C20_Witness ==
    /\ dkOut.op = "recreate"
    /\ ~dkOut.err
    /\ OdooName("p1") \in DOMAIN containers
    /\ containers[OdooName("p1")].cid = dockerSeq
    /\ containers[OdooName("p1")].cid > 4
    /\ containers[OdooName("p1")].running
    /\ Bind("/repos/custom", "/mnt/extra-addons")
           \in containers[OdooName("p1")].mounts

(***************************************************************************)
(* Specifications: deleting a project                                      *)
(***************************************************************************)
\* The project is started with the directories of the repos its settings
\* name, its repo settings are edited, and it is deleted.
DeleteNext ==
    \/ \E id \in DkProjs, gitOk \in BOOLEAN, fail \in {"none", "start"} :
           DkStartProject(id, HostDir(repoCfg, "custom", gitOk),
                          HostDir(repoCfg, "enterprise", gitOk),
                          HostDir(repoCfg, "design-themes", gitOk), fail)
    \/ \E id \in DkProjs, new \in RepoChoices, urlChanged \in BOOLEAN,
          gitOk \in BOOLEAN, fail \in {"none", "remove"}, ioOk \in BOOLEAN :
           DkProjectRepo(id, new, urlChanged, gitOk, fail, ioOk)
    \/ \E id \in DkProjs : DkDeleteAccept(id)
    \/ \E fail \in {"none", "stop", "remove", "fs"} : DkDeleteRun(fail)

\* A serving process, with or without a Docker manager, and project p1.
DeleteInit ==
    /\ DockerIdle
    /\ ExtIdle
    /\ store = [id \in {"p1"} |-> Row("a", 8069, "stopped")]
    /\ odooState = [id \in ProjIds |-> "stopped"]
    /\ dockerMgr \in BOOLEAN
    /\ pubLog = <<>>
    /\ HubIdle
    /\ BkIdle
    /\ ApiIdle
    /\ TaskIdle

SpecDelete == DeleteInit /\ [][DeleteNext]_vars

\* C16: when deleteProject completes (the row is removed and
\* project_deleted is published), the containers odoo-<id> and
\* postgres-<id> do not exist, and neither do the clone directories of the
\* project nor its config directory.
C16_DeleteLeavesNothing ==
    [][(dkOut'.op = "delete" /\ ~StoreHas(store', delSnap.id))
         => /\ OdooName(delSnap.id) \notin DOMAIN containers'
            /\ PostgresName(delSnap.id) \notin DOMAIN containers'
            /\ \A k \in RepoKinds : <<delSnap.id, k>> \notin repoDirs'
            /\ delSnap.id \notin confDir']_vars

\* deleteProject has completed for p1 after a removal of its running
\* containers failed: the row is gone, project_deleted is published, the
\* containers exist.
C16_Witness ==
    /\ dkOut.op = "delete"
    /\ dkOut.err
    /\ ~StoreHas(store, "p1")
    /\ pubLog[Len(pubLog)] = Evt("project_deleted", "p1", "")
    /\ OdooName("p1") \in DOMAIN containers
    /\ PostgresName("p1") \in DOMAIN containers

(***************************************************************************)
(* Specifications: update Odoo, update repos and restart                   *)
(***************************************************************************)
MaintTasks == {"t1", "t2"}
MaintIds   == {"p1", "p3"}

MaintNext ==
    \/ \E t \in MaintTasks, id \in MaintIds : HandleUpdateOdoo(t, id)
    \/ \E t \in MaintTasks, gitOk \in BOOLEAN, inspectFails \in BOOLEAN,
          fail \in {"none", "inspect", "pull", "stop", "remove", "create", "start"} :
           UpdateOdooRun(t, gitOk, fail, inspectFails)
    \/ \E t \in MaintTasks, id \in MaintIds : HandleUpdateRepos(t, id)
    \/ \E t \in MaintTasks, gitOk \in BOOLEAN : ReposPull(t, gitOk)
    \/ \E t \in MaintTasks, inspectFails \in BOOLEAN : ReposPullFailed(t, inspectFails)
    \/ \E t \in MaintTasks, gitOk \in BOOLEAN, devMode \in BOOLEAN,
          fail \in {"none", "restart"} : ReposRestart(t, gitOk, devMode, fail)
    \/ \E t \in MaintTasks, inspectFails \in BOOLEAN : ReposFinish(t, inspectFails)
    \/ \E t \in MaintTasks, id \in MaintIds : HandleRestartOdoo(t, id)
    \/ \E t \in MaintTasks, fail \in {"none", "restart"} : RestartRun(t, fail)
    \/ \E t \in MaintTasks, inspectFails \in BOOLEAN : RestartFinish(t, inspectFails)

\* A serving process with one project, p1, created: its two containers
\* exist, running or stopped, and its store status says which; the repos
\* its settings name are cloned.
MaintInit ==
    /\ \E up \in BOOLEAN :
         /\ containers =
              (OdooName("p1") :> [cid |-> 2, running |-> up,
                                  labels |-> projectLabels("p1", "odoo"),
                                  image |-> OdooImage(OdooVersionOf("p1")),
                                  mounts |-> OdooBinds("", "", "")
                                             \cup {Volume(2, "/var/lib/odoo")}])
              @@ (PostgresName("p1") :> [cid |-> 1, running |-> up,
                                         labels |-> projectLabels("p1", "postgres"),
                                         image |-> PostgresImage, mounts |-> {}])
         /\ store = [id \in {"p1"} |->
                       Row("a", 8069, IF up THEN "running" ELSE "stopped")]
    /\ dockerSeq = 2
    /\ confDir = {"p1"}
    /\ repoCfg \in {{}, {"custom"}, RepoKinds}
    /\ repoDirs = {<<"p1", k>> : k \in repoCfg}
    /\ delSnap = NoDelete
    /\ dkOut = DkNone
    /\ odooState = [id \in ProjIds |-> "stopped"]
    /\ dockerMgr \in BOOLEAN
    /\ pubLog = <<>>
    /\ HubIdle
    /\ BkIdle
    /\ ApiIdle
    /\ TaskIdle
    /\ ExtIdle

SpecMaint == MaintInit /\ [][MaintNext]_vars

\* C12: when a Docker or git step of a background task has failed, the task
\* stores status "error", publishes project_status_changed with "error" and
\* does nothing else: the step a goroutine takes after a failed pull of the
\* custom repo or a failed restart of the odoo container is that one.
C12_FailedStepSetsError ==
    [][\A t \in MaintTasks :
         (/\ taskPc[t] \in {"repoPullFailed", "repoRestartFailed", "restartFailed"}
          /\ taskPc'[t] # taskPc[t])
         => /\ pubLog' = Append(pubLog, Evt("project_status_changed",
                                            taskProj[t], "error"))
            /\ store'[taskProj[t]].status = "error"]_vars

\* The pull of the custom repo has failed in the goroutine of update-repos
\* of a running project, after the handler published the pending event.
C12_Witness ==
    \E t \in MaintTasks :
        /\ taskPc[t] = "repoPullFailed"
        /\ taskSnap[t].status = "running"
        /\ pubLog # <<>>
        /\ pubLog[Len(pubLog)] = Evt("project_action_pending", "p1", "updating-repo")

(***************************************************************************)
(* Specifications: the event hub                                           *)
(***************************************************************************)
HubNext ==
    \/ \E c \in Chans : HubSubscribe(c)
    \/ \E c \in Chans : HubUnsubscribe(c)
    \/ \E g \in Pubs : HubPublishBegin(g)
    \/ \E g \in Pubs, c \in Chans : HubPublishSend(g, c)
    \/ \E g \in Pubs : HubPublishEnd(g)
    \/ \E c \in Chans : SSEReceive(c)

HubInit ==
    HubIdle /\ WorldIdle /\ BkIdle /\ ApiIdle /\ TaskIdle /\ DockerIdle /\ ExtIdle

SpecHub == HubInit /\ [][HubNext]_vars

\* C9: Hub.Publish never waits for a subscriber.  A goroutine inside Publish
\* always has a step it can take whatever the buffers hold; the iteration
\* for a channel whose buffer holds 16 events leaves that buffer as it is
\* (the event is dropped for that subscriber only) and the iteration for any
\* other channel appends the event; no iteration touches another channel's
\* buffer; and no buffer ever holds more than 16 events.
C9_PublishNeverBlocks ==
    /\ [](\A c \in Chans : Len(chanBuf[c]) <= 16)
    /\ [](\A g \in Pubs : pubPc[g] = "locked" =>
              ENABLED (HubPublishEnd(g) \/ \E c \in Chans : HubPublishSend(g, c)))
    /\ [][\A g \in Pubs, c \in Chans :
            (c \in pubTodo[g] /\ c \notin pubTodo'[g]) =>
                /\ chanBuf'[c] = IF Len(chanBuf[c]) = 16
                                 THEN chanBuf[c]
                                 ELSE Append(chanBuf[c], pubEvt[g])
                /\ \A d \in Chans \ {c} : chanBuf'[d] = chanBuf[d]]_vars

\* A Publish has visited two subscribers; the one whose buffer
\* was full did not get the event, the other one did.
C9_Witness ==
    \E g \in Pubs, c \in hubClients, d \in hubClients :
        /\ pubPc[g] = "locked"
        /\ c \notin pubTodo[g] /\ d \notin pubTodo[g]
        /\ Len(chanBuf[c]) = 16
        /\ \A i \in 1..Len(chanBuf[c]) : chanBuf[c][i] < pubEvt[g]
        /\ sseLast[c] < pubEvt[g]
        /\ \E i \in 1..Len(chanBuf[d]) : chanBuf[d][i] = pubEvt[g]

\* C10: every subscriber receives events in publish order: an event it
\* receives has a higher publish number than the one it received before.
C10_ReceivedInPublishOrder ==
    [][\A c \in Chans :
          (chanState'[c] = "open" /\ sseLast'[c] # sseLast[c]) =>
              sseLast'[c] > sseLast[c]]_vars

\* Two subscribers hold the same two events in opposite orders: whatever
\* order the two overlapping Publish calls are given, one of the two
\* subscribers will receive them against it.
C10_Witness ==
    \E c \in hubClients, d \in hubClients :
        /\ Len(chanBuf[c]) = 2 /\ Len(chanBuf[d]) = 2
        /\ chanBuf[c][1] # chanBuf[c][2]
        /\ chanBuf[c][1] = chanBuf[d][2]
        /\ chanBuf[c][2] = chanBuf[d][1]

ConfNext ==
    \E addonPath \in AddonPaths, enable \in BOOLEAN, ioOk \in BOOLEAN :
        UpdateOdooConfig(addonPath, enable, ioOk)

\* Any odoo.conf of up to MaxConfLines lines is on disk.
ConfInit ==
    /\ odooConf \in ConfFiles
    /\ confCall = ConfNone
    /\ SetIdle /\ HealthIdle /\ BkDiskIdle /\ LateIdle
    /\ HubIdle /\ WorldIdle /\ BkIdle /\ ApiIdle /\ TaskIdle /\ DockerIdle

SpecConf == ConfInit /\ [][ConfNext]_vars

\* How many times the addons_path option of the file names a path: the
\* items equal to it on the lines "addons_path = ...".
RECURSIVE CountIn(_, _)
CountIn(vals, path) ==
    IF vals = <<>> THEN 0
    ELSE (IF Head(vals) = path THEN 1 ELSE 0) + CountIn(Tail(vals), path)

RECURSIVE AddonCount(_, _)
AddonCount(lines, path) ==
    IF lines = <<>> THEN 0
    ELSE (IF Head(lines).key = AddonsKey /\ Head(lines).eq
          THEN CountIn(Head(lines).vals, path) ELSE 0)
         + AddonCount(Tail(lines), path)

IsAddonsLine(line) == line.key = AddonsKey

\* C21: after updateOdooConfigAddonPath(path, true) the addons_path option
\* of the file names path exactly once, after (path, false) not at all, and
\* every line of the file other than the addons_path line is as it was, for
\* files without an addons_path line, with one lacking '=', with several,
\* and with options whose name only starts with addons_path.
C21_AddonPathOnceOrNever ==
    [][(confCall'.op = "addonPath" /\ ~confCall'.err)
       => /\ AddonCount(odooConf', confCall'.path)
                 = IF confCall'.enable THEN 1 ELSE 0
          /\ Len(odooConf') >= Len(odooConf)
          /\ \A i \in 1..Len(odooConf) :
                 ~IsAddonsLine(odooConf[i]) => odooConf'[i] = odooConf[i]
          /\ \A i \in (Len(odooConf) + 1)..Len(odooConf') :
                 IsAddonsLine(odooConf'[i])]_vars

\* The path was enabled in a file that held it twice on its addons_path
\* line, beside one other line.
C21_Witness ==
    /\ confCall.op = "addonPath"
    /\ ~confCall.err
    /\ confCall.enable
    /\ confCall.path = "/mnt/enterprise-addons"
    /\ Len(odooConf) = 2
    /\ odooConf[1] = ConfLine(<<"data_dir">>, TRUE, <<"/var/lib/odoo">>)
    /\ odooConf[2] = ConfLine(AddonsKey, TRUE, <<"/mnt/enterprise-addons">>)

(***************************************************************************)
(* Specifications: /api/settings                                           *)
(***************************************************************************)
SetNext ==
    \/ \E pat \in Pats : PutSettings(pat)
    \/ GetSettings

\* A serving process with no PAT stored.
SetInit ==
    /\ SetIdle
    /\ ConfIdle /\ HealthIdle /\ BkDiskIdle /\ LateIdle
    /\ HubIdle /\ WorldIdle /\ BkIdle /\ ApiIdle /\ TaskIdle /\ DockerIdle

SpecSettings == SetInit /\ [][SetNext]_vars

\* Two tokens agree on their first four and their last four characters.
SameEnds(p, q) ==
    /\ SubSeq(p, 1, 4) = SubSeq(q, 1, 4)
    /\ SubSeq(p, Len(p) - 3, Len(p)) = SubSeq(q, Len(q) - 3, Len(q))

\* C22: the github_pat of a GET /api/settings answer is not the stored
\* token; it is empty when no PAT is stored, "****" when the PAT has at
\* most 8 characters, and else its first 4 characters, "..." and its last
\* 4; stored PATs of more than 8 characters with the same first 4 and last
\* 4 characters get the same answer.
C22_PatIsMasked ==
    setResp.answered =>
        /\ settingsPat # <<>> => setResp.github_pat # settingsPat
        /\ settingsPat = <<>> => setResp.github_pat = <<>>
        /\ Len(settingsPat) \in 1..8
               => setResp.github_pat = <<"*", "*", "*", "*">>
        /\ Len(settingsPat) > 8
               => /\ Len(setResp.github_pat) = 11
                  /\ SubSeq(setResp.github_pat, 1, 4) = SubSeq(settingsPat, 1, 4)
                  /\ SubSeq(setResp.github_pat, 5, 7) = <<".", ".", ".">>
                  /\ SubSeq(setResp.github_pat, 8, 11)
                         = SubSeq(settingsPat, Len(settingsPat) - 3,
                                  Len(settingsPat))
                  /\ \A q \in Pats :
                         (Len(q) > 8 /\ SameEnds(q, settingsPat))
                             => maskPAT(q) = setResp.github_pat

\* A GET answered while a PAT of 9 characters is stored.
C22_Witness ==
    /\ setResp.answered
    /\ Len(settingsPat) = 9
    /\ Len(setResp.github_pat) = 11

(***************************************************************************)
(* Specifications: the Docker health loop and /api/events                  *)
(***************************************************************************)
HealthNext ==
    \/ \E reachable \in BOOLEAN : HealthPing(reachable)
    \/ HealthUpdate
    \/ HealthPublish
    \/ \E c \in Chans : HubPublishSend(HealthPub, c)
    \/ HubPublishEnd(HealthPub)
    \/ HealthLoop
    \/ \E c \in Chans : HubSubscribe(c)
    \/ \E c \in Chans : SseVersion(c)
    \/ \E c \in Chans : SseDockerStatus(c)
    \/ \E c \in Chans : SseLoop(c)
    \/ \E c \in Chans : HubUnsubscribe(c)

\* NewHandler: dockerUp is true when the Manager was created and its ping
\* succeeded; the loop has not pinged yet.
HealthInit ==
    /\ dockerMgr \in BOOLEAN
    /\ dockerUp \in {FALSE, dockerMgr}
    /\ hlIsUp = dockerUp
    /\ hlPc = "sleep"
    /\ hlPings = 0
    /\ sseHello = [c \in Chans |-> "none"]
    /\ store = [id \in ProjIds |-> NoRow]
    /\ odooState = [id \in ProjIds |-> "absent"]
    /\ pubLog = <<>>
    /\ HubIdle /\ BkIdle /\ ApiIdle /\ TaskIdle /\ DockerIdle
    /\ ConfIdle /\ SetIdle /\ BkDiskIdle /\ LateIdle

SpecHealth == HealthInit /\ [][HealthNext]_vars

\* C23: the health loop publishes docker_status exactly when a ping result
\* differs from the cached dockerUp: after the update the cached value is
\* the last ping result, the loop goes to Publish when the two differed and
\* back to sleep without an event when the ping confirmed the cached value,
\* and any two docker_status events that follow one another carry different
\* values.
C23_PublishOnChangeOnly ==
    /\ [](hlPc # "pinged" => dockerUp = hlIsUp)
    /\ [](\A i \in 1..(Len(pubLog) - 1) : pubLog[i].data # pubLog[i + 1].data)
    /\ [][/\ (hlPc = "pinged" /\ hlPc' # "pinged")
             => /\ dockerUp' = hlIsUp
                /\ (hlPc' = "publish") = (dockerUp # hlIsUp)
                /\ (hlPc' = "sleep") = (dockerUp = hlIsUp)
          /\ pubLog' # pubLog
             => /\ hlPc = "publish"
                /\ pubLog' = Append(pubLog, Evt("docker_status", "",
                                                IF dockerUp THEN "up"
                                                ELSE "down"))]_vars

\* The loop has published down and then up, and then a ping confirmed up.
C23_Witness ==
    /\ Len(pubLog) = 2
    /\ pubLog[1].data = "down"
    /\ pubLog[2].data = "up"
    /\ hlPings = 3
    /\ hlPc = "sleep"
    /\ dockerUp

\* The last docker_status value connection c was sent: the frame of the
\* connect, or the last hub event written after it.
LastStatus(c) ==
    IF sseLast[c] = 0 THEN sseHello[c] ELSE pubLog[sseLast[c]].data

\* C24: on every /api/events connection the version frame is written first
\* and the docker_status frame with the cached status second, both before
\* any hub event; and with no event dropped, once the health loop is idle
\* and the connection has written what its channel held, the last
\* docker_status value it was sent is the cached status, however the
\* subscription and a status transition interleave.
C24_ConnectSeesStatus ==
    /\ [](\A c \in Chans :
            (/\ chanState[c] = "open"
             /\ sseHello[c] \in {"up", "down"}
             /\ hlPc \in {"sleep", "pinged"}
             /\ chanBuf[c] = <<>>)
            => LastStatus(c) = (IF dockerUp THEN "up" ELSE "down"))
    /\ [][\A c \in Chans :
            /\ sseLast'[c] # sseLast[c] /\ chanState'[c] = "open"
                 => sseHello[c] \in {"up", "down"}
            /\ sseHello'[c] # sseHello[c]
                 => \/ sseHello[c] = "none" /\ sseHello'[c] = "version"
                    \/ /\ sseHello[c] = "version"
                       /\ sseLast[c] = 0
                       /\ sseHello'[c] = (IF dockerUp THEN "up" ELSE "down")]_vars

\* A connection subscribed before a transition to down, wrote its
\* docker_status frame after the loop had cached down, and has then been
\* sent the event down.
C24_Witness ==
    \E c \in Chans :
        /\ chanState[c] = "open"
        /\ sseHello[c] = "down"
        /\ sseLast[c] = 1
        /\ pubLog[1].data = "down"
        /\ chanBuf[c] = <<>>
        /\ hlPc = "sleep"

(***************************************************************************)
(* Specifications: requests on a project id                                *)
(***************************************************************************)
\* The tables of up to two rows over ProjIds that ProjectStore can hold.
NfStores ==
    UNION {{st \in [D -> {Row(n, p, "stopped") : n \in Names, p \in Ports}] :
               \A i, j \in D : i # j => /\ st[i].name # st[j].name
                                        /\ st[i].port # st[j].port} :
           D \in SUBSET ProjIds}

NfNext ==
    \/ \E ep \in GetFirstEndpoints, id \in ProjIds : HandleNoRow(ep, id)
    \/ \E id \in ProjIds, bodyOk \in BOOLEAN, name \in Names, port \in Ports :
          HandlePut(id, bodyOk, name, port, "stopped")
    \/ \E id \in ProjIds : HandleLogs(id)
    \/ \E id \in ProjIds, cstate \in ContainerStates, inspectFails \in BOOLEAN :
          GetProject(id, cstate, inspectFails)

\* A serving process with any such table, with or without a Docker manager.
NfInit ==
    /\ HubIdle
    /\ BkIdle
    /\ ApiIdle
    /\ TaskIdle
    /\ DockerIdle
    /\ ExtIdle
    /\ store \in NfStores
    /\ odooState = [id \in ProjIds |-> "absent"]
    /\ dockerMgr \in BOOLEAN
    /\ pubLog    = <<>>

SpecNoRow == NfInit /\ [][NfNext]_vars

\* C26: a request of any endpoint under /api/projects/{id} with an id that
\* has no row in the store is answered 404 and changes neither the store
\* nor the containers.
C26_MissingIdIs404 ==
    [][(nfLast' # nfLast /\ ~StoreHas(store, nfLast'.id))
         => /\ nfLast'.code = 404
            /\ store' = store
            /\ odooState' = odooState
            /\ containers' = containers]_vars

\* C26: restart-odoo was asked for an id without a row and answered 404.
C26_Witness ==
    /\ nfLast.ep = "restart-odoo"
    /\ nfLast.code = 404
    /\ ~StoreHas(store, nfLast.id)

(***************************************************************************)
(* Specifications: the repository columns                                  *)
(***************************************************************************)
\* The ids that uuid.New gives the projects of this specification.
GitIds == {"p1", "p2"}

GitNext ==
    \/ \E id \in GitIds, name \in Names, port \in Ports, url \in RepoUrls,
          branch \in RepoBranches, urlOk \in BOOLEAN :
          GitPost(id, name, port, url, branch, urlOk)
    \/ \E id \in GitIds, created \in BOOLEAN : GitCreated(id, created)
    \/ \E id \in GitIds, name \in Names, port \in Ports, url \in RepoUrls,
          branch \in RepoBranches :
          GitPut(id, name, port, "stopped", url, branch)
    \/ \E id \in GitIds, url \in RepoUrls, branch \in RepoBranches,
          urlOk \in BOOLEAN, updateOk \in BOOLEAN :
          GitRepo(id, url, branch, urlOk, updateOk)

\* A serving process with an empty table.
GitInit ==
    /\ HubIdle
    /\ WorldIdle
    /\ BkIdle
    /\ ApiIdle
    /\ TaskIdle
    /\ DockerIdle
    /\ ExtIdle

SpecGit == GitInit /\ [][GitNext]_vars

\* C27: in every reachable state every project whose git_repo_url is empty
\* has an empty git_repo_branch.
C27_EmptyUrlEmptyBranch ==
    \A id \in DOMAIN gitStore :
        gitStore[id].url = "" => gitStore[id].branch = ""

\* C27: PUT /api/projects/{id}/repo with an empty URL has cleared the
\* repository of a project that had one.
C27_Witness ==
    /\ nfLast.ep = "repo"
    /\ nfLast.code = 200
    /\ StoreHas(store, nfLast.id)
    /\ gitStore[nfLast.id] = GitCols("", "")
    /\ \E i \in 1..Len(pubLog) : pubLog[i].type = "project_created"

(***************************************************************************)
(* Specifications: paging through the audit log                            *)
(***************************************************************************)
AuditNext ==
    \/ AuditFirst
    \/ AuditOlder
    \/ \E k \in 0..(MaxLines + 1) : AuditProbe(k)

\* Any log of up to MaxLines lines and any ?limit= up to MaxLimit (0: the
\* default); nothing is appended while the page is read.
AuditInit ==
    /\ HubIdle /\ WorldIdle /\ BkIdle /\ ApiIdle /\ TaskIdle /\ DockerIdle
    /\ ConfIdle /\ SetIdle /\ HealthIdle /\ BkDiskIdle
    /\ NfIdle /\ GitIdle /\ MigIdle /\ MoreIdle
    /\ auditLog \in AuditLogs
    /\ pgLimit  \in 0..MaxLimit
    /\ pgPc     = "start"
    /\ pgPages  = <<>>
    /\ pgOffset = 0
    /\ probe    = PageNone

SpecAudit == AuditInit /\ [][AuditNext]_vars

\* The pages received so far, the oldest page first.
RECURSIVE PagesOldestFirst(_)
PagesOldestFirst(pages) ==
    IF pages = <<>> THEN <<>>
    ELSE PagesOldestFirst(Tail(pages)) \o Head(pages)

Max0(x) == IF x < 0 THEN 0 ELSE x

\* C28: with nothing appended, Tail(n) and the TailBefore(n, offset) calls
\* that follow it return the lines of the log newest page first, each page
\* in file order and every line once (the pages so far are exactly the last
\* `offset` lines), a page is empty only when the pages before it hold the
\* whole log, and the reading ends with an empty page and the offset L; and
\* TailBefore(n, k) returns the lines
\* [max(0, L-k-n), L-k) with the offset L - max(0, L-k-n).
C28_PagesCoverLogOnce ==
    LET L == Len(auditLog)
        n == AuditLimit(pgLimit) IN
    /\ pgPc # "start" =>
          /\ pgOffset <= L
          /\ PagesOldestFirst(pgPages) = SubSeq(auditLog, L - pgOffset + 1, L)
          /\ \A i \in 1..Len(pgPages) :
                (pgPages[i] = <<>>) =>
                    PagesOldestFirst(SubSeq(pgPages, 1, i - 1)) = auditLog
          /\ \A i \in 1..Len(pgPages) : Len(pgPages[i]) <= n
    /\ pgPc = "done" =>
          /\ pgPages[Len(pgPages)] = <<>>
          /\ pgOffset = L
          /\ PagesOldestFirst(pgPages) = auditLog
    /\ probe # PageNone =>
          /\ probe.lines  = SubSeq(auditLog, Max0(L - probe.k - n) + 1, L - probe.k)
          /\ probe.offset = L - Max0(L - probe.k - n)

\* C28: a log of four lines was read to its end in pages of three and one
\* line, and TailBefore was called with an offset inside the log.
C28_Witness ==
    /\ pgPc = "done"
    /\ pgPages = <<<<2, 3, 4>>, <<1>>, <<>>>>
    /\ probe.k = 1
    /\ probe.lines = <<1, 2, 3>>

(***************************************************************************)
(* Specifications: schema migrations                                       *)
(***************************************************************************)
MigNext ==
    \/ \E readOk \in BOOLEAN : RunMigrationsBegin(readOk)
    \/ \E outcome \in TxOutcomes : RunMigrationsStep(outcome)
    \/ RunMigrationsReturn

\* A database file that earlier runs of this list have brought to any of
\* its versions (0: a new file).
MigInit ==
    /\ HubIdle /\ WorldIdle /\ BkIdle /\ ApiIdle /\ TaskIdle /\ DockerIdle
    /\ ConfIdle /\ SetIdle /\ HealthIdle /\ BkDiskIdle
    /\ NfIdle /\ GitIdle /\ AuditIdle /\ MoreIdle
    /\ \E v \in 0..Len(Migrations) : db = Db(v, SubSeq(Migrations, 1, v))
    /\ migRun  = MigNone
    /\ migPrev = MigNone
    /\ migRuns = 0

SpecMig == MigInit /\ [][MigNext]_vars

\* The migrations with a version above v, in the order of the list.
RECURSIVE Above(_, _)
Above(list, v) ==
    IF list = <<>> THEN <<>>
    ELSE IF Head(list) > v THEN <<Head(list)>> \o Above(Tail(list), v)
    ELSE Above(Tail(list), v)

IsPrefix(s, t) == Len(s) <= Len(t) /\ s = SubSeq(t, 1, Len(s))

\* C29: a run started at the persisted version v applies only migrations
\* above v, each once and in ascending order, and when it returns nil it
\* has applied all of them and the persisted version is the highest of the
\* list; the persisted version never decreases; a run after a run that
\* returned nil applies nothing.
C29_AppliesPendingInOrder ==
    /\ [](/\ IsPrefix(migRun.applied, Above(Migrations, migRun.startV))
          /\ migRun.pc = "done" =>
                /\ migRun.applied = Above(Migrations, migRun.startV)
                /\ db.version = Migrations[Len(Migrations)]
          /\ (migPrev.pc = "done" /\ migRun.pc # "none") => migRun.applied = <<>>
          /\ \A i, j \in 1..Len(db.applied) :
                i < j => db.applied[i] < db.applied[j])
    /\ [][db'.version >= db.version]_vars

\* C29: a run that began at version 2 has returned nil with migrations 3 to
\* 6 applied, and the run before it ended with an error.
C29_Witness ==
    /\ migRun.pc = "done"
    /\ migRun.startV = 2
    /\ migRun.applied = <<3, 4, 5, 6>>
    /\ migPrev.pc = "failed"

LastCommitted(d) == IF d.applied = <<>> THEN 0 ELSE d.applied[Len(d.applied)]

\* C30: when migration k fails the run has ended with an error: k is not
\* among the applied migrations, nor is any later one, the persisted
\* version is that of the last migration committed, and nothing more is
\* applied until another run begins; the next run that reads the version
\* begins its work at migration k.
C30_FailureStopsAndResumes ==
    /\ [](/\ (migRun.pc = "failed" /\ migRun.failedAt > 0) =>
                /\ \A i \in 1..Len(db.applied) : db.applied[i] < migRun.failedAt
          /\ db.version = LastCommitted(db)
          /\ (migPrev.pc = "failed" /\ migPrev.failedAt > 0 /\ migRun.idx > 0) =>
                /\ migRun.applied # <<>> => Head(migRun.applied) = migPrev.failedAt
                /\ migRun.failedAt > 0 => migRun.failedAt >= migPrev.failedAt
                /\ migRun.pc = "done" => migRun.applied # <<>>)
    /\ [][migRun.pc = "failed" => db' = db]_vars

\* C30: the commit of migration 4 failed in a run that had applied 3, and
\* the run after it has applied 4.
C30_Witness ==
    /\ migPrev.pc = "failed"
    /\ migPrev.failedAt = 4
    /\ migPrev.applied = <<3>>
    /\ migRun.applied = <<4>>
    /\ db = Db(4, <<1, 2, 3, 4>>)

(***************************************************************************)
(* Specifications: panics in the background goroutines                     *)
(***************************************************************************)
PanicRows == {Row("a", 8069, s) : s \in {"stopped", "running", "creating"}}

PanicNext ==
    \/ \E g \in BgSlots : BgPanic(g)
    \/ MainReconcile
    \/ MainServe
    \/ \E id \in ProjIds, name \in Names, port \in Ports,
          status \in RestingBodyStatuses : PutProject(id, name, port, status)

\* A serving process with project p1 and up to two goroutines in flight,
\* each of any kind, for p1 or for a project p2 deleted since the fork.
PanicInit ==
    /\ HubIdle /\ BkIdle /\ ApiIdle /\ TaskIdle /\ DockerIdle
    /\ ConfIdle /\ SetIdle /\ HealthIdle /\ BkDiskIdle
    /\ NfIdle /\ GitIdle /\ AuditIdle /\ MigIdle /\ DelIdle /\ AlIdle /\ GtIdle /\ SwIdle
    /\ store \in [{"p1"} -> PanicRows]
    /\ odooState = [id \in ProjIds |-> "stopped"]
    /\ dockerMgr = TRUE
    /\ pubLog = <<>>
    /\ bg \in [BgSlots ->
                 {BgNone} \cup {Bg(k, id, r, "running") :
                                  k \in BgKinds, id \in {"p1", "p2"},
                                  r \in {Row("a", 8069, "stopped")}}]

SpecPanic == PanicInit /\ [][PanicNext]_vars

\* C31: a panic in a background goroutine of any kind is recovered, and for
\* a project that is in the store the status "error" is stored and
\* project_status_changed with "error" is published.
C31_PanicBecomesError ==
    [][\A g \in BgSlots :
          (bg[g].pc = "running" /\ bg'[g].pc \in {"recovered", "crashed"})
             => /\ bg'[g].pc = "recovered"
                /\ StoreHas(store, bg[g].id) =>
                     /\ store'[bg[g].id].status = "error"
                     /\ pubLog' = Append(pubLog,
                           Evt("project_status_changed", bg[g].id, "error"))]_vars

\* C31: the goroutine of a start has panicked and was recovered; the row of
\* its project says "error" and the event is out.
C31_Witness ==
    \E g \in BgSlots :
        /\ bg[g].kind = "start"
        /\ bg[g].pc = "recovered"
        /\ store["p1"].status = "error"
        /\ pubLog # <<>>
        /\ pubLog[Len(pubLog)] = Evt("project_status_changed", "p1", "error")

(***************************************************************************)
(* Specifications: the steps of deleteProject                              *)
(***************************************************************************)
DelNext ==
    \/ \E d \in DelTasks, id \in {"p1", "p3"} : DelAccept(d, id)
    \/ \E d \in DelTasks, fail \in {"none", "stop", "remove", "fs"} :
          DelContainers(d, fail)
    \/ \E d \in DelTasks, fsOk \in BOOLEAN : DelClones(d, fsOk)
    \/ \E d \in DelTasks, deleteOk \in BOOLEAN : DelRow(d, deleteOk)
    \/ \E d \in DelTasks : DelPublish(d)

\* A serving process, with or without a Docker manager, and project p1
\* with its containers, its config directory and its clones.
DelInit ==
    /\ HubIdle /\ BkIdle /\ ApiIdle /\ TaskIdle
    /\ ConfIdle /\ SetIdle /\ HealthIdle /\ BkDiskIdle
    /\ NfIdle /\ GitIdle /\ AuditIdle /\ MigIdle /\ BgIdle /\ AlIdle /\ GtIdle /\ SwIdle
    /\ \E up \in BOOLEAN :
         containers =
              (OdooName("p1") :> [cid |-> 2, running |-> up,
                                  labels |-> projectLabels("p1", "odoo"),
                                  image |-> OdooImage(OdooVersionOf("p1")),
                                  mounts |-> OdooBinds("", "", "")
                                             \cup {Volume(2, "/var/lib/odoo")}])
              @@ (PostgresName("p1") :> [cid |-> 1, running |-> up,
                                         labels |-> projectLabels("p1", "postgres"),
                                         image |-> PostgresImage, mounts |-> {}])
    /\ dockerSeq = 2
    /\ confDir = {"p1"}
    /\ repoCfg \in {{}, {"custom"}, RepoKinds}
    /\ repoDirs = {<<"p1", k>> : k \in repoCfg}
    /\ delSnap = NoDelete
    /\ dkOut = DkNone
    /\ store = [id \in {"p1"} |-> Row("a", 8069, "stopped")]
    /\ odooState = [id \in ProjIds |-> "stopped"]
    /\ dockerMgr \in BOOLEAN
    /\ pubLog = <<>>
    /\ del = [d \in DelTasks |-> DelNone]

SpecDelSteps == DelInit /\ [][DelNext]_vars

\* The order of the steps of deleteProject.
DelOrder == <<"containers", "clones", "row", "published">>

\* s is t with some elements left out.
RECURSIVE IsSubSeq(_, _)
IsSubSeq(s, t) ==
    IF s = <<>> THEN TRUE
    ELSE IF t = <<>> THEN FALSE
    ELSE IF Head(s) = Head(t) THEN IsSubSeq(Tail(s), Tail(t))
    ELSE IsSubSeq(s, Tail(t))

\* C32: the delete task does its steps in the order containers, clones,
\* row, project_deleted; project_deleted is published only when the row
\* is absent from the store; and when the deletion of the row fails, no
\* project_deleted is published by the task and the row remains.
C32_DeleteOrder ==
    /\ [](\A d \in DelTasks :
            /\ IsSubSeq(del[d].trace, DelOrder)
            /\ (del[d].pc \in {"publish", "done"}) =>
                  (/\ IsSubSeq(<<"clones", "row">>, del[d].trace)
                   /\ dockerMgr => del[d].trace[1] = "containers")
            /\ (del[d].pc = "returned") =>
                  (del[d].trace[Len(del[d].trace)] = "clones"))
    /\ [][\A d \in DelTasks :
            /\ (del[d].pc = "publish" /\ del'[d].pc = "done") =>
                  /\ ~StoreHas(store, del[d].id)
                  /\ ~StoreHas(store', del[d].id)
            /\ (del[d].pc = "row" /\ del'[d].pc = "returned") =>
                  /\ store' = store
                  /\ pubLog' = pubLog
            /\ (del[d].pc = "returned") =>
                  /\ del'[d] = del[d]]_vars

\* C32: one delete task has removed the containers and the clones, deleted
\* the row and published project_deleted; the other one stopped at a failed
\* deletion of the row.
C32_Witness ==
    /\ del["d1"].trace = DelOrder
    /\ del["d2"].pc = "returned"
    /\ pubLog[Len(pubLog)] = Evt("project_deleted", "p1", "")
    /\ ~StoreHas(store, "p1")

(***************************************************************************)
(* Specification: sends and closes on the hub's and the logger's channels  *)
(***************************************************************************)
\* Publish calls explored next to the logger's.
MaxClosePublish == 2

CloseNext ==
    \/ \E c \in Chans : HubSubscribe(c)
    \/ \E c \in Chans : HubUnsubscribe(c)
    \/ \E g \in Pubs : hubSeq < MaxClosePublish /\ HubPublishBegin(g)
    \/ \E g \in Pubs, c \in Chans : HubPublishSend(g, c)
    \/ \E g \in Pubs : HubPublishEnd(g)
    \/ \E c \in LogChans : LoggerSubscribe(c)
    \/ \E c \in LogChans : LoggerUnsubscribe(c)
    \/ \E l \in Loggers : LoggerLogBegin(l)
    \/ \E l \in Loggers, c \in LogChans : LoggerLogSend(l, c)
    \/ \E l \in Loggers : LoggerLogEnd(l)

SpecClose == HubInit /\ [][CloseNext]_vars

\* C36: no event is ever sent on a closed channel.  Every channel a Publish
\* or a Log call still has to visit is open, and every step that sends on a
\* channel (takes it off the caller's list) finds it open; Unsubscribe is
\* called at most once per channel (a closed channel is never closed again).
C36_NoSendOnClosed ==
    /\ [](/\ \A g \in Pubs : \A c \in pubTodo[g] : chanState[c] = "open"
          /\ \A l \in Loggers : \A c \in al.todo[l] : al.state[c] = "open")
    /\ [][(/\ \A g \in Pubs : \A c \in pubTodo[g] \ pubTodo'[g] :
                 chanState[c] = "open" /\ chanState'[c] = "open"
           /\ \A l \in Loggers : \A c \in al.todo[l] \ al'.todo[l] :
                 al.state[c] = "open" /\ al'.state[c] = "open")]_vars

\* A Publish and a Log call have each delivered to an open channel while
\* another channel of the same hub and logger had been closed before.
C36_Witness ==
    /\ \E g \in Pubs, c, d \in Chans :
          /\ pubPc[g] = "locked" /\ chanState[d] = "closed"
          /\ c \notin pubTodo[g] /\ chanState[c] = "open"
          /\ chanBuf[c] # <<>>
    /\ \E l \in Loggers, c, d \in LogChans :
          /\ al.pc[l] = "locked" /\ al.state[d] = "closed"
          /\ c \notin al.todo[l] /\ al.state[c] = "open"
          /\ al.buf[c] # <<>>

(***************************************************************************)
(* Specification: PUT /api/projects/{id}/repo and odoo.conf                *)
(***************************************************************************)
\* The repo settings of a created project are edited again and again.
RepoNext ==
    \/ \E id \in DkProjs, new \in RepoChoices, urlChanged \in BOOLEAN,
          gitOk \in BOOLEAN, ioOk \in BOOLEAN,
          fail \in {"none", "inspect", "create"} :
           DkProjectRepo(id, new, urlChanged, gitOk, fail, ioOk)
    \/ \E id \in DkProjs, fail \in {"none", "stop"} : DkStopProject(id, fail)

\* Project p1 as CreateProject and StartProject left it when every clone
\* succeeded: its containers exist, the odoo container binds the clone of
\* each configured kind, and odoo.conf is the default one for the settings.
RepoInit ==
    /\ HubIdle /\ BkIdle /\ ApiIdle /\ TaskIdle
    /\ SetIdle /\ HealthIdle /\ BkDiskIdle /\ LateIdle
    /\ repoCfg \in RepoChoices
    /\ repoDirs = {<<"p1", k>> : k \in repoCfg}
    /\ odooConf = defaultOdooConf("custom" \in repoCfg, "enterprise" \in repoCfg,
                                  "design-themes" \in repoCfg)
    /\ confCall = ConfNone
    /\ \E up \in BOOLEAN :
         /\ containers =
              (OdooName("p1") :> [cid |-> 2, running |-> up,
                                  labels |-> projectLabels("p1", "odoo"),
                                  image |-> OdooImage(OdooVersionOf("p1")),
                                  mounts |-> OdooBinds(HostDir(repoCfg, "custom", TRUE),
                                                       HostDir(repoCfg, "enterprise", TRUE),
                                                       HostDir(repoCfg, "design-themes", TRUE))])
              @@ (PostgresName("p1") :> [cid |-> 1, running |-> up,
                                         labels |-> projectLabels("p1", "postgres"),
                                         image |-> PostgresImage, mounts |-> {}])
         /\ store = [id \in {"p1"} |->
                       Row("a", 8069, IF up THEN "running" ELSE "stopped")]
    /\ dockerSeq = 2
    /\ confDir = {"p1"}
    /\ delSnap = NoDelete
    /\ dkOut = DkNone
    /\ odooState = [id \in ProjIds |-> "stopped"]
    /\ dockerMgr = TRUE
    /\ pubLog = <<>>

SpecRepo == RepoInit /\ [][RepoNext]_vars

\* The mount targets on the addons_path lines of an odoo.conf.
AddonsPathOf(conf) ==
    UNION {{conf[i].vals[j] : j \in 1..Len(conf[i].vals)} :
              i \in {k \in 1..Len(conf) : conf[k].key = AddonsKey /\ conf[k].eq}}
    \ {""}

\* The destinations of the bind mounts of a container.
BoundAt(c) == {mp.dest : mp \in {x \in c.mounts : x.src # ""}}

\* C34: after PUT /api/projects/{id}/repo has completed with the odoo
\* container recreated and every write of odoo.conf done, addons_path lists
\* /mnt/extra-addons, /mnt/enterprise-addons or /mnt/design-themes exactly
\* when the recreated container bind-mounts a directory there, a failed
\* clone or pull included.
C34_AddonsPathMatchesMounts ==
    [][(/\ dkOut'.op = "repo" /\ ~dkOut'.err /\ ~confCall'.err
        /\ OdooName("p1") \in DOMAIN containers'
        /\ containers'[OdooName("p1")].cid > dockerSeq)
         => \A k \in RepoKinds :
               MountTarget(k) \in AddonsPathOf(odooConf')
                  <=> MountTarget(k) \in BoundAt(containers'[OdooName("p1")])]_vars

\* A PUT that configured a custom repository has completed after the clone
\* failed: the container was recreated without a bind at /mnt/extra-addons
\* and addons_path lists /mnt/extra-addons.
C34_Witness ==
    /\ dkOut.op = "repo" /\ ~dkOut.err /\ ~confCall.err
    /\ OdooName("p1") \in DOMAIN containers
    /\ containers[OdooName("p1")].cid = dockerSeq
    /\ dockerSeq > 2
    /\ repoCfg = {"custom"}
    /\ <<"p1", "custom">> \notin repoDirs
    /\ "/mnt/extra-addons" \in AddonsPathOf(odooConf)
    /\ "/mnt/extra-addons" \notin BoundAt(containers[OdooName("p1")])

(***************************************************************************)
(* Specification: clone or pull, again and again                           *)
(***************************************************************************)
GitopsNext ==
    \/ \E k \in RepoKinds, gitOk \in BOOLEAN : CloneOrPull(k, gitOk)
    \/ \E k \in RepoKinds, rmOk \in BOOLEAN : RemoveRepo(k, rmOk)

GitopsInit ==
    /\ HubIdle /\ WorldIdle /\ BkIdle /\ ApiIdle /\ TaskIdle /\ DockerIdle
    /\ ConfIdle /\ SetIdle /\ HealthIdle /\ BkDiskIdle
    /\ NfIdle /\ GitIdle /\ AuditIdle /\ MigIdle /\ BgIdle /\ DelIdle /\ AlIdle
    /\ GtIdle /\ SwIdle

SpecGitops == GitopsInit /\ [][GitopsNext]_vars

\* C35: when a call of CloneOrPull (or of a variant) for a directory fails,
\* the directory does not exist afterwards, and a call that follows a failed
\* one for the same directory takes the clone branch; a call takes the clone
\* branch exactly when the directory had no .git marker.
C35_FailureRemovesDirectory ==
    [][\A k \in RepoKinds :
          (gt'.last.kind = k /\ gt'.last.branch \in {"clone", "pull"}
           /\ gt'.last # gt.last)
            => /\ gt'.last.err => gt'.dir[k] = "none"
               /\ gt.failed[k] => gt'.last.branch = "clone"
               /\ gt'.last.branch = "clone" <=> ~HasGitMarker(gt.dir[k])]_vars

\* A pull of the custom repository has failed: its directory, with .git, is
\* still there.
C35_Witness ==
    /\ gt.last = [kind |-> "custom", branch |-> "pull", err |-> TRUE, marker |-> TRUE]
    /\ gt.dir["custom"] = "clone"
    /\ gt.failed["custom"]

(***************************************************************************)
(* Start, stop and delete of one project, interleaved                      *)
(***************************************************************************)
\* project_deleted has been published for the project.
DeletedPublished(id) ==
    \E i \in 1..Len(pubLog) : pubLog[i] = Evt("project_deleted", id, "")

\* C37: once project_deleted has been published for a project, a start or
\* stop goroutine of that project that was forked before publishes no
\* project_status_changed event for it and does not create its containers
\* again.
C37_NothingAfterDeleted ==
    [][\A t \in Tasks :
          (/\ taskPc[t] \in {"startGet", "startRun", "stopGet", "stopRun"}
           /\ taskPc'[t] # taskPc[t]
           /\ DeletedPublished(taskProj[t]))
            => /\ \A i \in (Len(pubLog) + 1)..Len(pubLog') :
                    ~(pubLog'[i].type = "project_status_changed"
                      /\ pubLog'[i].id = taskProj[t])
               /\ odooState[taskProj[t]] = "absent"
                     => odooState'[taskProj[t]] = "absent"]_vars

\* startProjectContainers, forked before the delete, has started the
\* containers of p1 and published "running" after project_deleted.
C37_Witness ==
    /\ ~StoreHas(store, "p1")
    /\ odooState["p1"] = "running"
    /\ \E i, j \in 1..Len(pubLog) :
          /\ i < j
          /\ pubLog[i] = Evt("project_deleted", "p1", "")
          /\ pubLog[j] = Evt("project_status_changed", "p1", "running")

(***************************************************************************)
(* Specification: status writes next to PUT /api/projects/{id}             *)
(***************************************************************************)
\* Start and stop requests on p1 and the goroutines they fork, with PUT
\* requests that rename the project or move its port in between.
StaleTasks == {"t1", "t2"}

StaleNext ==
    \/ \E t \in StaleTasks : HandleStart(t, "p1")
    \/ \E t \in StaleTasks, inspectFails \in BOOLEAN : HandleStartAct(t, inspectFails)
    \/ \E t \in StaleTasks : HandleStop(t, "p1")
    \/ \E t \in StaleTasks, inspectFails \in BOOLEAN : HandleStopAct(t, inspectFails)
    \/ \E t \in StaleTasks : StartGet(t)
    \/ \E t \in StaleTasks, dockerOk \in BOOLEAN : StartRun(t, dockerOk)
    \/ \E t \in StaleTasks : StopGet(t)
    \/ \E t \in StaleTasks, dockerOk \in BOOLEAN : StopRun(t, dockerOk)
    \/ \E name \in Names, port \in Ports, status \in RestingBodyStatuses :
          PutProject("p1", name, port, status)

StaleInit ==
    /\ HubIdle /\ BkIdle /\ ApiIdle /\ TaskIdle /\ DockerIdle /\ ExtIdle
    /\ store     = [id \in {"p1"} |-> Row("a", 8069, "stopped")]
    /\ odooState = [id \in ProjIds |-> IF id = "p1" THEN "stopped" ELSE "absent"]
    /\ dockerMgr = TRUE
    /\ pubLog    = <<>>

SpecStale == StaleInit /\ [][StaleNext]_vars

\* C38: a status write of the start or stop handler (reconciliation on
\* read) or of the last step of a start or stop goroutine changes only the
\* status of the stored row: the name and the port that a PUT wrote after
\* the writer read the row are still there after the write.
C38_StatusWriteKeepsOtherColumns ==
    [][(\E t \in Tasks : taskPc'[t] # taskPc[t])
         => \A id \in DOMAIN store \cap DOMAIN store' :
               /\ store'[id].name = store[id].name
               /\ store'[id].port = store[id].port]_vars

\* startProjectContainers has read the row of p1, a PUT has renamed the
\* project to "b", and the goroutine is about to write the row it read.
C38_Witness ==
    \E t \in Tasks :
       /\ taskPc[t] = "startRun"
       /\ taskSnap[t].name = "a"
       /\ store["p1"].name = "b"

(***************************************************************************)
(* Specification: concurrent PUT /api/settings                             *)
(***************************************************************************)
\* The tokens of the request bodies: none, one GitHub accepts, one it
\* rejects.
RacePats == {<<>>, <<"g">>, <<"*">>}

SetRaceNext ==
    \/ \E r \in SetReqs, pat \in RacePats : SetPutPat(r, pat)
    \/ \E r \in SetReqs : SetPutValid(r)
    \/ GetSettings

SpecSetRace == SetInit /\ [][SetRaceNext]_vars

\* C39: whenever no PUT /api/settings is in progress, github_pat_valid is
\* empty iff github_pat is empty, and otherwise it is "true" or "false" as
\* the validation of the stored github_pat says.
C39_SettingsConsistent ==
    (\A r \in SetReqs : setReqs[r].pc = "idle")
       => /\ settingsValid = "" <=> settingsPat = <<>>
          /\ settingsPat # <<>>
                => settingsValid = IF ValidateToken(settingsPat)
                                   THEN "true" ELSE "false"

\* Two PUT requests have been served, the token GitHub rejects was stored
\* last, and github_pat_valid is "true".
C39_Witness ==
    /\ \A r \in SetReqs : setReqs[r].pc = "idle"
    /\ settingsPat = <<"*">>
    /\ settingsValid = "true"

(***************************************************************************)
(* Specification: a clean-containers sweep next to a project creation      *)
(***************************************************************************)
\* The POST /api/projects request that creates p3.
SweepPost == "c2"

\* createProjectContainers between its Get and its status write: the call
\* of Manager.CreateProject for the new project.
CtCreateProject(r, fail) ==
    /\ postPc[r] = "ctRun"
    /\ ~Exists(containers, OdooName(NewId[r]))
    /\ DkCreateProject(NewId[r], "", "", "", fail)

\* The names a container of the daemon may have.
SweepNames ==
    {ForeignName} \cup {OdooName(id) : id \in ProjIds}
                  \cup {PostgresName(id) : id \in ProjIds}

SweepNext ==
    \/ \E name \in Names, port \in Ports : PostBegin(SweepPost, name, port)
    \/ \E gitOk \in BOOLEAN : PostPortChk(SweepPost, gitOk)
    \/ PostInsert(SweepPost)
    \/ CtBegin(SweepPost)
    \/ \E fail \in {"none", "create"} : CtCreateProject(SweepPost, fail)
    \/ \E created \in BOOLEAN : CtFinish(SweepPost, created)
    \/ SweepSnapshot
    \/ \E fail \in {"none", "list"} : SweepList(fail)
    \/ \E n \in SweepNames, fail \in {"none", "remove"} : SweepRemove(n, fail)
    \/ SweepReturn

SpecSweep == DockerInit /\ [][SweepNext]_vars

\* C40: the sweep never removes a container whose project is in the store
\* at the moment of the removal.
C40_SweepSparesStoredProjects ==
    [][\A n \in DOMAIN containers :
          (sw'.removed # sw.removed /\ n \notin DOMAIN containers')
             => containers[n].labels.projectId \notin DOMAIN store]_vars

\* The sweep has removed the postgres container of p3 while p3 is in the
\* store.
C40_Witness ==
    /\ StoreHas(store, "p3")
    /\ PostgresName("p3") \in sw.removed
    /\ ~Exists(containers, PostgresName("p3"))

====
